---------------------------- MODULE Spec2Model ----------------------------
(***************************************************************************)
(* A model of chrono::modal::ChModalAssembly                               *)
(* (src/src/chrono_modal/ChModalAssembly.cpp): the assembly with boundary  *)
(* and internal items, the switch to the modal-reduced state, the state    *)
(* mapping used by the time integrator and the reduced matrices.           *)
(*                                                                         *)
(* Geometry is restricted to one translational axis (x) and rotations by   *)
(* multiples of pi about one axis (z): a node has 1 + 2 position           *)
(* coordinates (x, and the quaternion components e0, e3) where the source  *)
(* has 3 + 4, and 1 + 1 velocity coordinates where the source has 3 + 3.   *)
(* A "3 x 3 block" of the source is a 1 x 1 block here.  Reals are exact   *)
(* rationals <<numerator, denominator>>.                                   *)
(***************************************************************************)
EXTENDS Integers, Sequences, FiniteSets, TLC

VARIABLES asm, call

vars == <<asm, call>>

\* the value of a function of one argument: Let([x \in {e} |-> b]) is b with
\* x standing for e, and e is computed once
Let(f) == f[CHOOSE x \in DOMAIN f : TRUE]

-----------------------------------------------------------------------------
(* Exact rational arithmetic: the model's "double".                        *)

RECURSIVE GCD(_, _)
GCD(a, b) == IF b = 0 THEN a ELSE GCD(b, a % b)

Abs(n) == IF n < 0 THEN -n ELSE n

Norm(n, d) ==
    IF d = 1 THEN <<n, 1>>
    ELSE IF n = 0 THEN <<0, 1>>
    ELSE Let([g \in {GCD(Abs(n), Abs(d))} |->
         Let([s \in {IF d < 0 THEN -1 ELSE 1} |->
             <<(s * n) \div g, (s * d) \div g>>])])

Q(n) == <<n, 1>>

RAdd(p, q) ==
    IF p[2] = 1 /\ q[2] = 1 THEN <<p[1] + q[1], 1>>
    ELSE Norm(p[1] * q[2] + q[1] * p[2], p[2] * q[2])

RNeg(p) == <<-p[1], p[2]>>

RSub(p, q) == RAdd(p, RNeg(q))

RMul(p, q) ==
    IF p[2] = 1 /\ q[2] = 1 THEN <<p[1] * q[1], 1>>
    ELSE Norm(p[1] * q[1], p[2] * q[2])

RDiv(p, q) == Norm(p[1] * q[2], p[2] * q[1])

RIsZero(p) == p[1] = 0

-----------------------------------------------------------------------------
(* Vectors (sequences of rationals) and matrices ([r, c, a]: a is the      *)
(* sequence of rows).  Indices given to segment/block are the 0-based      *)
(* indices of the source.                                                  *)

\* the sequence f, every entry computed once
Tup(f) == f \o <<>>

\* the operators below compute their vector and matrix arguments once
VZero(n) == Tup([i \in 1..n |-> Q(0)])

VAdd(u, v) == Let([a \in {u}, b \in {v} |-> Tup([i \in 1..Len(a) |-> RAdd(a[i], b[i])])])

VSub(u, v) == Let([a \in {u}, b \in {v} |-> Tup([i \in 1..Len(a) |-> RSub(a[i], b[i])])])

VNeg(u) == Let([a \in {u} |-> Tup([i \in 1..Len(a) |-> RNeg(a[i])])])

VScale(c, u) == Let([f \in {c}, a \in {u} |-> Tup([i \in 1..Len(a) |-> RMul(f, a[i])])])

VIsZero(u) == Let([a \in {u} |-> \A i \in 1..Len(a) : RIsZero(a[i])])

\* v.segment(start, n)
segment(v, start, n) == Let([a \in {v} |-> Tup([i \in 1..n |-> a[start + i]])])

\* v.segment(start, Len(w)) = w
SetSegment(v, start, w) ==
    Let([a \in {v}, b \in {w} |->
        Tup([i \in 1..Len(a) |->
            IF i > start /\ i <= start + Len(b) THEN b[i - start] ELSE a[i]])])

RECURSIVE DotTo(_, _, _)
DotTo(u, v, n) ==
    IF n = 0 THEN Q(0) ELSE RAdd(DotTo(u, v, n - 1), RMul(u[n], v[n]))

Dot(u, v) == Let([a \in {u}, b \in {v} |-> DotTo(a, b, Len(a))])

MZero(r, c) == [r |-> r, c |-> c, a |-> Tup([i \in 1..r |-> Tup([j \in 1..c |-> Q(0)])])]

MIdentity(r, c) ==
    [r |-> r, c |-> c,
     a |-> Tup([i \in 1..r |-> Tup([j \in 1..c |-> IF i = j THEN Q(1) ELSE Q(0)])])]

MCol(A, j) == Let([P \in {A} |-> Tup([i \in 1..P.r |-> P.a[i][j]])])

MT(A) ==
    Let([P \in {A} |->
        [r |-> P.c, c |-> P.r,
         a |-> Tup([i \in 1..P.c |-> Tup([j \in 1..P.r |-> P.a[j][i]])])]])

MAdd(A, B) ==
    Let([P \in {A}, R \in {B} |->
        [r |-> P.r, c |-> P.c,
         a |-> Tup([i \in 1..P.r |-> Tup([j \in 1..P.c |-> RAdd(P.a[i][j], R.a[i][j])])])]])

MSub(A, B) ==
    Let([P \in {A}, R \in {B} |->
        [r |-> P.r, c |-> P.c,
         a |-> Tup([i \in 1..P.r |-> Tup([j \in 1..P.c |-> RSub(P.a[i][j], R.a[i][j])])])]])

MScale(c, A) ==
    Let([f \in {c}, P \in {A} |->
        [r |-> P.r, c |-> P.c,
         a |-> Tup([i \in 1..P.r |-> Tup([j \in 1..P.c |-> RMul(f, P.a[i][j])])])]])

MMul(A, B) ==
    Let([P \in {A}, RT \in {MT(B)} |->
        [r |-> P.r, c |-> RT.r,
         a |-> Tup([i \in 1..P.r |-> Tup([j \in 1..RT.r |-> Dot(P.a[i], RT.a[j])])])]])

MMul3(A, B, C) == MMul(MMul(A, B), C)

MMul4(A, B, C, D) == MMul(MMul(MMul(A, B), C), D)

MVec(A, v) == Let([P \in {A}, a \in {v} |-> Tup([i \in 1..P.r |-> Dot(P.a[i], a)])])

\* A.block(i0, j0, p, q)
block(A, i0, j0, p, q) ==
    Let([P \in {A} |->
        [r |-> p, c |-> q,
         a |-> Tup([i \in 1..p |-> Tup([j \in 1..q |-> P.a[i0 + i][j0 + j]])])]])

\* A.block(i0, j0, B.r, B.c) = B
SetBlock(A, i0, j0, B) ==
    Let([P \in {A}, R \in {B} |->
        [r |-> P.r, c |-> P.c,
         a |-> Tup([i \in 1..P.r |-> Tup([j \in 1..P.c |->
                  IF i > i0 /\ i <= i0 + R.r /\ j > j0 /\ j <= j0 + R.c
                  THEN R.a[i - i0][j - j0] ELSE P.a[i][j]])])]])

\* the 1 x 1 matrix (x)
M11(x) == [r |-> 1, c |-> 1, a |-> <<<<x>>>>]


-----------------------------------------------------------------------------
(* Bounds of the model.                                                    *)

\* the assembly's own offsets in the system vectors are AsmOffset + 2 (x),
\* AsmOffset + 1 (w) and AsmOffset (L)
AsmOffset == 1

\* boundary bodies are moved rigidly by 0..MaxShift
MaxShift == 1

\* modal amplitudes, speeds and accelerations given by the integrator are
\* multiples 0..MaxAmp of a fixed pattern
MaxAmp == 1

\* number of modes requested from the eigen-solver: 1..MaxModes
MaxModes == 1

\* no coordinate is followed beyond +-MaxPos
MaxPos == 3

\* at most MaxCalls operations that change the assembly are followed
MaxCalls == 3

-----------------------------------------------------------------------------
(* Items.  A body is a node with 1 + 2 coordinates and 1 + 1 speeds; a     *)
(* link carries doc constraint rows and no coordinates; a mesh has no      *)
(* nodes of its own here; an "other" physics item is a load with a         *)
(* stiffness block between two bodies.                                     *)

\* ChBody::GetDOF(): position coordinates of a body (source: 3 + 4)
BodyDOF == 1 + 2

\* ChBody::GetDOF_w(): velocity coordinates of a body (source: 3 + 3)
BodyDOF_w == 1 + 1

\* the quaternion (e0, e3) of a rotation by k * pi about z, k in 0..3
QuatOf(k) ==
    CASE k = 0 -> <<Q(1), Q(0)>>
      [] k = 1 -> <<Q(0), Q(1)>>
      [] k = 2 -> <<Q(-1), Q(0)>>
      [] OTHER -> <<Q(0), Q(-1)>>

\* ChQuaternion::Q_to_Rotv(): the rotation vector (about z, in units of pi)
Q_to_Rotv(quat) ==
    CASE quat = QuatOf(0) -> Q(0)
      [] quat = QuatOf(1) -> Q(1)
      [] quat = QuatOf(2) -> Q(0)
      [] OTHER -> Q(-1)

\* ChQuaternion::Q_from_Rotv(): defined here for whole multiples of pi
Q_from_Rotv(rv) == QuatOf(rv[1] % 4)

\* quaternion product, both about z
QMul(p, q) ==
    <<RSub(RMul(p[1], q[1]), RMul(p[2], q[2])),
      RAdd(RMul(p[1], q[2]), RMul(p[2], q[1]))>>

\* ChMatrix33(quat): the translational (x) entry of the rotation matrix
RotA(quat) == RSub(RMul(quat[1], quat[1]), RMul(quat[2], quat[2]))

NewBody(id, x, k, m) ==
    [id |-> id, pos |-> Q(x), rot |-> QuatOf(k),
     pos_dt |-> Q(0), wvel |-> Q(0), pos_dtdt |-> Q(0), wacc |-> Q(0),
     mass |-> Q(m), inertia |-> Q(m), fixed |-> FALSE,
     qb |-> <<Q(0), Q(0)>>, fb |-> <<Q(0), Q(0)>>, throws |-> FALSE,
     offset_x |-> 0, offset_w |-> 0, offset_L |-> 0]

NewLink(id, a, b, doc) ==
    [id |-> id, a |-> a, b |-> b, doc |-> doc, active |-> TRUE,
     offset_x |-> 0, offset_w |-> 0, offset_L |-> 0]

NewMesh(id) == [id |-> id, offset_x |-> 0, offset_w |-> 0, offset_L |-> 0]

NewLoad(id, a, b, k) ==
    [id |-> id, a |-> a, b |-> b, k |-> Q(k),
     offset_x |-> 0, offset_w |-> 0, offset_L |-> 0]

\* ChBody::IsActive()
IsActive(body) == ~body.fixed

-----------------------------------------------------------------------------
(* Counting and offsets: ChAssembly::Setup() for the boundary items and    *)
(* ChModalAssembly::Setup() for the internal items and the totals.         *)

\* number of active bodies among the first n of a list
CountActive(list, n) == Cardinality({i \in 1..n : IsActive(list[i])})

\* constraint rows of the active links among the first n of a list
RECURSIVE SumDoc(_, _)
SumDoc(list, n) ==
    IF n = 0 THEN 0
    ELSE SumDoc(list, n - 1) + (IF list[n].active THEN list[n].doc ELSE 0)

\* a loop over a body list that gives every body the offsets of the first
AssignBodies_same(list, ox, ow, oL) ==
    Tup([i \in 1..Len(list) |->
        IF IsActive(list[i])
        THEN [list[i] EXCEPT !.offset_x = ox, !.offset_w = ow, !.offset_L = oL]
        ELSE list[i]])

\* the loop over a body list: offsets as the counters stand at each body
AssignBodies(list, ox, ow, oL) ==
    Tup([i \in 1..Len(list) |->
        IF IsActive(list[i])
        THEN [list[i] EXCEPT !.offset_x = ox + BodyDOF * CountActive(list, i - 1),
                             !.offset_w = ow + BodyDOF_w * CountActive(list, i - 1),
                             !.offset_L = oL]
        ELSE list[i]])

\* the loop over a link list
AssignLinks(list, ox, ow, oL) ==
    Tup([i \in 1..Len(list) |->
        IF list[i].active
        THEN [list[i] EXCEPT !.offset_x = ox, !.offset_w = ow,
                             !.offset_L = oL + SumDoc(list, i - 1)]
        ELSE list[i]])

\* the loop over a mesh list or a list of other physics items
AssignItems(list, ox, ow, oL) ==
    Tup([i \in 1..Len(list) |->
        [list[i] EXCEPT !.offset_x = ox, !.offset_w = ow, !.offset_L = oL]])

(* What one operation did besides changing the assembly: the functions it  *)
(* called on internal items, the eigen-solves and factorizations it ran,   *)
(* and the exception it left with ("" when it returned).                   *)

NoTrace ==
    [internal |-> {}, eigen_solves |-> 0, factorizations |-> 0, solves |-> {},
     eigen_input |-> <<>>, steps |-> <<>>,
     exc |-> ""]

\* the loops over the four internal lists visit at least one item
HasInternalItems(s) ==
    \/ Len(s.internal_bodylist) > 0
    \/ Len(s.internal_linklist) > 0
    \/ Len(s.internal_meshlist) > 0
    \/ Len(s.internal_otherphysicslist) > 0

\* the set of functions called on internal items by the loops of fn
InternalCalls(s, fn) == IF HasInternalItems(s) THEN {fn} ELSE {}

Touch(s, fn) == [s EXCEPT !.trace.internal = @ \cup InternalCalls(s, fn)]

\* a step of SwitchModalReductionON has been completed
Step(s, name) == [s EXCEPT !.trace.steps = Append(@, name)]

Throw(s, what) == [s EXCEPT !.trace.exc = what]

Threw(s) == s.trace.exc # ""

\* ChAssembly::Setup(): the parent counts the boundary items
ChAssembly_Setup(s) ==
    Let([nb \in {CountActive(s.bodylist, Len(s.bodylist))} |->
    Let([nc \in {BodyDOF * nb} |->
    Let([ncw \in {BodyDOF_w * nb} |->
    Let([nd \in {SumDoc(s.linklist, Len(s.linklist))} |->
    Let([nl \in {Cardinality({i \in 1..Len(s.linklist) : s.linklist[i].active})} |->
        [s EXCEPT
          !.bodylist = AssignBodies(@, s.offset_x, s.offset_w, s.offset_L),
          !.linklist = AssignLinks(@, s.offset_x + nc, s.offset_w + ncw, s.offset_L),
          !.meshlist = AssignItems(@, s.offset_x + nc, s.offset_w + ncw, s.offset_L + nd),
          !.otherphysicslist =
              AssignItems(@, s.offset_x + nc, s.offset_w + ncw, s.offset_L + nd),
          !.nbodies = nb, !.nlinks = nl,
          !.nmeshes = Len(s.meshlist), !.nphysicsitems = Len(s.otherphysicslist),
          !.ncoords = nc, !.ncoords_w = ncw,
          !.ndoc_w = nd, !.ndoc_w_C = nd, !.ndoc_w_D = 0,
          !.ndoc = nd + nb,
          !.nsysvars = nc + nd + nb, !.nsysvars_w = ncw + nd,
          !.ndof = ncw - nd]])])])])])

\* ChModalAssembly::Setup()
Setup(s0) ==
    Let([s \in {ChAssembly_Setup(s0)} |->
    Let([ox \in {s.offset_x + s.ncoords} |->
    Let([ow \in {s.offset_w + s.ncoords_w} |->
    Let([oL \in {s.offset_L + s.ndoc_w} |->
    Let([nib \in {CountActive(s.internal_bodylist, Len(s.internal_bodylist))} |->
    Let([nic \in {BodyDOF * nib} |->
    Let([nicw \in {BodyDOF_w * nib} |->
    Let([nid \in {SumDoc(s.internal_linklist, Len(s.internal_linklist))} |->
    Let([nil \in {Cardinality({i \in 1..Len(s.internal_linklist) :
                                  s.internal_linklist[i].active})} |->
    Let([t \in {[s EXCEPT
                  !.n_boundary_bodies = s.nbodies, !.n_boundary_links = s.nlinks,
                  !.n_boundary_meshes = s.nmeshes,
                  !.n_boundary_physicsitems = s.nphysicsitems,
                  !.n_boundary_coords = s.ncoords, !.n_boundary_coords_w = s.ncoords_w,
                  !.n_boundary_doc = s.ndoc, !.n_boundary_doc_w = s.ndoc_w,
                  !.n_boundary_doc_w_C = s.ndoc_w_C, !.n_boundary_doc_w_D = s.ndoc_w_D,
                  !.n_boundary_sysvars = s.nsysvars,
                  !.n_boundary_sysvars_w = s.nsysvars_w,
                  !.n_boundary_dof = s.ndof,
                  !.internal_bodylist = AssignBodies(@, ox, ow, oL),
                  !.internal_linklist = AssignLinks(@, ox + nic, ow + nicw, oL),
                  !.internal_meshlist = AssignItems(@, ox + nic, ow + nicw, oL + nid),
                  !.internal_otherphysicslist =
                      AssignItems(@, ox + nic, ow + nicw, oL + nid),
                  !.n_internal_bodies = nib, !.n_internal_links = nil,
                  !.n_internal_meshes = Len(s.internal_meshlist),
                  !.n_internal_physicsitems = Len(s.internal_otherphysicslist),
                  !.n_internal_coords = nic, !.n_internal_coords_w = nicw,
                  !.n_internal_doc_w = nid, !.n_internal_doc_w_C = nid,
                  !.n_internal_doc_w_D = 0,
                  !.n_internal_doc = nid + nib,
                  !.n_internal_sysvars = nic + nid + nib,
                  !.n_internal_sysvars_w = nicw + nid,
                  !.n_internal_dof = nicw - nid,
                  !.custom_F_full = VZero(s.ncoords_w + nicw),
                  !.trace.internal = @ \cup InternalCalls(s, "Setup")]} |->
        IF ~t.is_modal
        THEN [t EXCEPT
               !.ncoords = t.n_boundary_coords + t.n_internal_coords,
               !.ncoords_w = t.n_boundary_coords_w + t.n_internal_coords_w,
               !.ndoc = t.n_boundary_doc + t.n_internal_doc,
               !.ndoc_w = t.n_boundary_doc_w + t.n_internal_doc_w,
               !.ndoc_w_C = t.n_boundary_doc_w_C + t.n_internal_doc_w_C,
               !.ndoc_w_D = t.n_boundary_doc_w_D + t.n_internal_doc_w_D,
               !.nsysvars = t.n_boundary_sysvars + t.n_internal_sysvars,
               !.nsysvars_w = t.n_boundary_sysvars_w + t.n_internal_sysvars_w,
               !.ndof = t.n_boundary_dof + t.n_internal_dof,
               !.nbodies = @ + t.n_internal_bodies,
               !.nlinks = @ + t.n_internal_links,
               !.nmeshes = @ + t.n_internal_meshes,
               !.nphysicsitems = @ + t.n_internal_physicsitems]
        ELSE [t EXCEPT
               !.ncoords = t.n_boundary_coords + t.n_modes_coords_w,
               !.ncoords_w = t.n_boundary_coords_w + t.n_modes_coords_w,
               !.ndoc = t.n_boundary_doc,
               !.ndoc_w = t.n_boundary_doc_w,
               !.ndoc_w_C = t.n_boundary_doc_w_C,
               !.ndoc_w_D = t.n_boundary_doc_w_D,
               !.nsysvars = t.n_boundary_sysvars + t.n_modes_coords_w,
               !.nsysvars_w = t.n_boundary_sysvars_w + t.n_modes_coords_w,
               !.ndof = t.n_boundary_dof + t.n_modes_coords_w,
               !.custom_F_modal =
                   VZero(t.n_boundary_coords_w + t.n_modes_coords_w)]])])])])])])])])])])

-----------------------------------------------------------------------------
(* Linear solves.                                                          *)

\* one elimination step on the rows G (each row: coefficients, then the
\* right-hand side): pivot of column j in row r + 1, or skip the column
RECURSIVE GaussJordan(_, _, _, _, _)
GaussJordan(G, n, j, r, piv) ==
    IF j > n \/ r = Len(G) THEN [G |-> G, piv |-> piv]
    ELSE Let([cand \in {{i \in (r + 1)..Len(G) : ~RIsZero(G[i][j])}} |->
         IF cand = {} THEN GaussJordan(G, n, j + 1, r, piv)
         ELSE
         Let([p \in {CHOOSE i \in cand : \A k \in cand : i <= k} |->
         Let([sw \in {Tup([i \in 1..Len(G) |->
                          IF i = r + 1 THEN G[p] ELSE IF i = p THEN G[r + 1] ELSE G[i]])} |->
         Let([pr \in {VScale(RDiv(Q(1), sw[r + 1][j]), sw[r + 1])} |->
         Let([el \in {Tup([i \in 1..Len(G) |->
                          IF i = r + 1 THEN pr ELSE VSub(sw[i], VScale(sw[i][j], pr))])} |->
         GaussJordan(el, n, j + 1, r + 1, Append(piv, j))])])])])])

\* rank of the square matrix A
Rank(A) ==
    Len(GaussJordan(Tup([i \in 1..A.r |-> Append(A.a[i], Q(0))]), A.c, 1, 0, <<>>).piv)

\* solver.solve(b) after solver.factorize(A): the solution of A x = b; when A
\* is rank-deficient the factorization still returns a vector, the basic
\* solution with the free unknowns at zero
SolveQR(A, b) ==
    Let([res \in {GaussJordan(Tup([i \in 1..A.r |-> Append(A.a[i], b[i])]), A.c, 1, 0, <<>>)} |->
        Tup([j \in 1..A.c |->
            IF \E k \in 1..Len(res.piv) : res.piv[k] = j
            THEN res.G[CHOOSE k \in 1..Len(res.piv) : res.piv[k] = j][A.c + 1]
            ELSE Q(0)])])

\* A.colPivHouseholderQr().solve(v) for a tall A of full column rank: the
\* least-squares solution, from the normal equations
SolveLeastSquares(A, v) == SolveQR(MMul(MT(A), A), MVec(MT(A), v))

-----------------------------------------------------------------------------
(* The state functions of a body (ChBody) and the loops of the parent      *)
(* assembly over a list of bodies.  An index i0 is the 0-based index of    *)
(* the source; links, meshes and loads have no state of their own here.    *)

\* the last active body of the list whose nd entries from displ + its
\* offset cover the 1-based position j, or 0
Owner(list, displ, j, nd, useW) ==
    Let([hit \in {{i \in 1..Len(list) :
                      /\ IsActive(list[i])
                      /\ j - (displ + (IF useW THEN list[i].offset_w ELSE list[i].offset_x))
                            \in 1..nd}} |->
        IF hit = {} THEN 0 ELSE CHOOSE i \in hit : \A k \in hit : k <= i])

\* ChBody::IntStateGather over a list: x
Bodies_GatherX(list, displ_x, x) ==
    Tup([j \in 1..Len(x) |->
        Let([i \in {Owner(list, displ_x, j, BodyDOF, FALSE)} |->
            IF i = 0 THEN x[j]
            ELSE Let([k \in {j - (displ_x + list[i].offset_x)} |->
                     IF k = 1 THEN list[i].pos ELSE list[i].rot[k - 1]])])])

\* ChBody::IntStateGather over a list: v
Bodies_GatherV(list, displ_v, v) ==
    Tup([j \in 1..Len(v) |->
        Let([i \in {Owner(list, displ_v, j, BodyDOF_w, TRUE)} |->
            IF i = 0 THEN v[j]
            ELSE IF j - (displ_v + list[i].offset_w) = 1
                 THEN list[i].pos_dt ELSE list[i].wvel])])

\* ChBody::IntStateGatherAcceleration over a list
Bodies_GatherA(list, displ_a, a) ==
    Tup([j \in 1..Len(a) |->
        Let([i \in {Owner(list, displ_a, j, BodyDOF_w, TRUE)} |->
            IF i = 0 THEN a[j]
            ELSE IF j - (displ_a + list[i].offset_w) = 1
                 THEN list[i].pos_dtdt ELSE list[i].wacc])])

\* ChBody::IntStateScatter over a list (an inactive body is only updated)
Bodies_Scatter(list, displ_x, x, displ_v, v) ==
    Tup([i \in 1..Len(list) |->
        IF IsActive(list[i])
        THEN Let([ix \in {displ_x + list[i].offset_x} |->
             Let([iv \in {displ_v + list[i].offset_w} |->
                 [list[i] EXCEPT !.pos = x[ix + 1],
                                 !.rot = <<x[ix + 2], x[ix + 3]>>,
                                 !.pos_dt = v[iv + 1],
                                 !.wvel = v[iv + 2]]])])
        ELSE list[i]])

\* ChBody::IntStateScatterAcceleration over a list
Bodies_ScatterA(list, displ_a, a) ==
    Tup([i \in 1..Len(list) |->
        IF IsActive(list[i])
        THEN Let([iv \in {displ_a + list[i].offset_w} |->
                 [list[i] EXCEPT !.pos_dtdt = a[iv + 1], !.wacc = a[iv + 2]]])
        ELSE list[i]])

\* ChBody::IntStateIncrement over a list: x_new = x + Dv, the rotation
\* composed with the rotation vector of Dv
Bodies_Increment(list, displ_x, x_new, x, displ_v, Dv) ==
    Tup([j \in 1..Len(x_new) |->
        Let([i \in {Owner(list, displ_x, j, BodyDOF, FALSE)} |->
            IF i = 0 THEN x_new[j]
            ELSE Let([ix \in {displ_x + list[i].offset_x} |->
                 Let([iv \in {displ_v + list[i].offset_w} |->
                 Let([k \in {j - ix} |->
                     IF k = 1 THEN RAdd(x[ix + 1], Dv[iv + 1])
                     ELSE QMul(Q_from_Rotv(Dv[iv + 2]),
                               <<x[ix + 2], x[ix + 3]>>)[k - 1]])])])])])

\* ChBody::IntStateGetIncrement over a list: Dv = x_new - x, the rotation
\* part as the rotation vector of conj(q_old) * q_new
Bodies_GetIncrement(list, displ_x, x_new, x, displ_v, Dv) ==
    Tup([j \in 1..Len(Dv) |->
        Let([i \in {Owner(list, displ_v, j, BodyDOF_w, TRUE)} |->
            IF i = 0 THEN Dv[j]
            ELSE Let([ix \in {displ_x + list[i].offset_x} |->
                 Let([iv \in {displ_v + list[i].offset_w} |->
                     IF j - iv = 1 THEN RSub(x_new[ix + 1], x[ix + 1])
                     ELSE Q_to_Rotv(QMul(<<x[ix + 2], RNeg(x[ix + 3])>>,
                                         <<x_new[ix + 2], x_new[ix + 3]>>))])])])])

-----------------------------------------------------------------------------
(* The state mapping used by the time integrator.                          *)

\* IntStateGather that writes the modal amplitudes behind as many
\* entries of x as the boundary has speeds
IntStateGather_speeds(s, off_x, x, off_v, v) ==
    Let([displ_x \in {off_x - s.offset_x} |->
    Let([displ_v \in {off_v - s.offset_w} |->
    Let([px \in {Bodies_GatherX(s.bodylist, displ_x, x)} |->
    Let([pv \in {Bodies_GatherV(s.bodylist, displ_v, v)} |->
        IF ~s.is_modal
        THEN [x |-> Bodies_GatherX(s.internal_bodylist, displ_x, px),
              v |-> Bodies_GatherV(s.internal_bodylist, displ_v, pv),
              internal |-> InternalCalls(s, "IntStateGather")]
        ELSE [x |-> SetSegment(px, off_x + s.n_boundary_coords_w, s.modal_q),
              v |-> SetSegment(pv, off_v + s.n_boundary_coords_w, s.modal_q_dt),
              internal |-> {}]])])])])

\* ChModalAssembly::IntStateGather
IntStateGather(s, off_x, x, off_v, v) ==
    Let([displ_x \in {off_x - s.offset_x} |->
    Let([displ_v \in {off_v - s.offset_w} |->
    Let([px \in {Bodies_GatherX(s.bodylist, displ_x, x)} |->
    Let([pv \in {Bodies_GatherV(s.bodylist, displ_v, v)} |->
        IF ~s.is_modal
        THEN [x |-> Bodies_GatherX(s.internal_bodylist, displ_x, px),
              v |-> Bodies_GatherV(s.internal_bodylist, displ_v, pv),
              internal |-> InternalCalls(s, "IntStateGather")]
        ELSE [x |-> SetSegment(px, off_x + s.n_boundary_coords, s.modal_q),
              v |-> SetSegment(pv, off_v + s.n_boundary_coords_w, s.modal_q_dt),
              internal |-> {}]])])])])

\* ChModalAssembly::IntStateGatherAcceleration
IntStateGatherAcceleration(s, off_a, a) ==
    Let([displ_a \in {off_a - s.offset_w} |->
    Let([pa \in {Bodies_GatherA(s.bodylist, displ_a, a)} |->
        IF ~s.is_modal
        THEN [a |-> Bodies_GatherA(s.internal_bodylist, displ_a, pa),
              internal |-> InternalCalls(s, "IntStateGatherAcceleration")]
        ELSE [a |-> SetSegment(pa, off_a + s.n_boundary_coords_w, s.modal_q_dtdt),
              internal |-> {}]])])

\* ChModalAssembly::IntStateScatterAcceleration
IntStateScatterAcceleration(s, off_a, a) ==
    Let([displ_a \in {off_a - s.offset_w} |->
    Let([p \in {[s EXCEPT !.bodylist = Bodies_ScatterA(@, displ_a, a)]} |->
        IF ~s.is_modal
        THEN Touch([p EXCEPT !.internal_bodylist = Bodies_ScatterA(@, displ_a, a)],
                   "IntStateScatterAcceleration")
        ELSE [p EXCEPT !.modal_q_dtdt =
                           segment(a, off_a + s.n_boundary_coords_w, s.n_modes_coords_w)]])])

\* ChModalAssembly::IntStateIncrement
IntStateIncrement(s, off_x, x_new, x, off_v, Dv) ==
    Let([displ_x \in {off_x - s.offset_x} |->
    Let([displ_v \in {off_v - s.offset_w} |->
    Let([p \in {Bodies_Increment(s.bodylist, displ_x, x_new, x, displ_v, Dv)} |->
        IF ~s.is_modal
        THEN [x_new |-> Bodies_Increment(s.internal_bodylist, displ_x, p, x, displ_v, Dv),
              internal |-> InternalCalls(s, "IntStateIncrement")]
        ELSE [x_new |->
                 SetSegment(p, off_x + s.n_boundary_coords,
                     VAdd(segment(x, off_x + s.n_boundary_coords, s.n_modes_coords_w),
                          segment(Dv, off_v + s.n_boundary_coords_w, s.n_modes_coords_w))),
              internal |-> {}]])])])

\* ChModalAssembly::IntStateGetIncrement
IntStateGetIncrement(s, off_x, x_new, x, off_v, Dv) ==
    Let([displ_x \in {off_x - s.offset_x} |->
    Let([displ_v \in {off_v - s.offset_w} |->
    Let([p \in {Bodies_GetIncrement(s.bodylist, displ_x, x_new, x, displ_v, Dv)} |->
        IF ~s.is_modal
        THEN [Dv |-> Bodies_GetIncrement(s.internal_bodylist, displ_x, x_new, x, displ_v, p),
              internal |-> InternalCalls(s, "IntStateGetIncrement")]
        ELSE [Dv |->
                 SetSegment(p, off_v + s.n_boundary_coords_w,
                     VSub(segment(x_new, off_x + s.n_boundary_coords, s.n_modes_coords_w),
                          segment(x, off_x + s.n_boundary_coords, s.n_modes_coords_w))),
              internal |-> {}]])])])

\* ChModalAssembly::GetStateIncrement (modal mode): Dx and v of the reduced state
GetStateIncrement(s) ==
    Let([bou_mod_coords \in {s.n_boundary_coords + s.n_modes_coords_w} |->
    Let([bou_mod_coords_w \in {s.n_boundary_coords_w + s.n_modes_coords_w} |->
    Let([g \in {IntStateGather(s, 0, VZero(bou_mod_coords), 0, VZero(bou_mod_coords_w))} |->
    Let([x0_mod \in {SetSegment(VZero(bou_mod_coords), 0,
                                segment(s.full_assembly_x_old, 0, s.n_boundary_coords))} |->
    Let([d \in {IntStateGetIncrement(s, 0, g.x, x0_mod, 0, VZero(bou_mod_coords_w))} |->
        [Dx |-> d.Dv, v |-> g.v, internal |-> g.internal \cup d.internal]])])])])])

-----------------------------------------------------------------------------
(* The floating frame of reference and the transformation matrices.        *)

\* ChMatrix33(quat): the entry of the rotation matrix on the rotation axis
\* (every rotation of the model is about that axis)
RotAzz(quat) == Q(1)

\* ChStarMatrix33(v): the skew operator of v; its 1 x 1 stand-in is linear
\* in v, as the operator is
StarMatrix(v) == v

\* the velocity coordinates of a frame (source: 6)
FrameDOF_w == 1 + 1

\* the active bodies of a list, in order
RECURSIVE ActiveBodies(_)
ActiveBodies(list) ==
    IF list = <<>> THEN <<>>
    ELSE IF IsActive(Head(list)) THEN <<Head(list)>> \o ActiveBodies(Tail(list))
    ELSE ActiveBodies(Tail(list))

RECURSIVE SumMass(_)
SumMass(list) == IF list = <<>> THEN Q(0) ELSE RAdd(Head(list).mass, SumMass(Tail(list)))

RECURSIVE SumMassPos(_)
SumMassPos(list) ==
    IF list = <<>> THEN Q(0)
    ELSE RAdd(RMul(Head(list).mass, Head(list).pos), SumMassPos(Tail(list)))

\* ChModalAssembly::ComputeMassCenter (the meshes hold no node and no mass)
ComputeMassCenter(s) ==
    Let([all \in {ActiveBodies(s.bodylist) \o ActiveBodies(s.internal_bodylist)} |->
    Let([mass_total \in {SumMass(all)} |->
        [s EXCEPT !.com_x =
            IF ~RIsZero(mass_total) THEN RDiv(SumMassPos(all), mass_total)
            ELSE s.full_assembly_x_old[1]]])])

\* ChModalAssembly::UpdateFloatingFrameOfReference
UpdateFloatingFrameOfReference(s) ==
    Let([act \in {ActiveBodies(s.bodylist)} |->
    Let([v0 \in {VZero(s.S.c)} |->
    LET fill(f0, f1) ==
            Tup([j \in 1..s.S.c |->
                IF (j - 1) \div BodyDOF_w + 1 > Len(act) THEN v0[j]
                ELSE IF (j - 1) % BodyDOF_w = 0 THEN f0[(j - 1) \div BodyDOF_w + 1]
                ELSE f1[(j - 1) \div BodyDOF_w + 1]])
    IN
    Let([pos_bou \in {fill(Tup([i \in 1..Len(act) |-> act[i].pos]),
                           Tup([i \in 1..Len(act) |-> Q_to_Rotv(act[i].rot)]))} |->
    Let([vel_bou \in {fill(Tup([i \in 1..Len(act) |-> act[i].pos_dt]),
                           Tup([i \in 1..Len(act) |-> act[i].wvel]))} |->
    Let([acc_bou \in {fill(Tup([i \in 1..Len(act) |-> act[i].pos_dtdt]),
                           Tup([i \in 1..Len(act) |-> act[i].wacc]))} |->
    Let([pos_F \in {MVec(s.S, pos_bou)} |->
    Let([vel_F \in {MVec(s.S, vel_bou)} |->
    Let([acc_F \in {MVec(s.S, acc_bou)} |->
    Let([F \in {[pos |-> pos_F[1], rot |-> Q_from_Rotv(pos_F[2]),
                 pos_dt |-> vel_F[1], wvel |-> vel_F[2],
                 pos_dtdt |-> acc_F[1], wacc |-> acc_F[2]]} |->
        [s EXCEPT !.floating_frame_F = F, !.R_F = RotA(F.rot), !.wloc_F = F.wvel]])])])])])])])])])

\* the node indices visited by a loop "for (i = 0; i < n; i++) { ...; i++; }"
EveryOtherNode(n) == {i \in 0..(n - 1) : i % 2 = 0}

\* ChModalAssembly::UpdateTransformationMatrix
UpdateTransformationMatrix(s) ==
    Let([nb \in {s.n_boundary_coords_w} |->
    Let([ni \in {s.n_internal_coords_w} |->
    Let([nm \in {s.n_modes_coords_w} |->
    Let([xo \in {s.full_assembly_x_old} |->
    Let([F \in {s.floating_frame_F} |->
    LET P1(n, base) ==
            [r |-> n, c |-> FrameDOF_w,
             a |-> Tup([i \in 1..n |-> Tup([j \in 1..FrameDOF_w |->
                Let([node \in {(i - 1) \div BodyDOF_w} |->
                Let([rot \in {(i - 1) % BodyDOF_w = 1} |->
                    IF node \notin EveryOtherNode(n \div BodyDOF_w) THEN Q(0)
                    ELSE IF ~rot /\ j = 1 THEN Q(1)
                    ELSE IF ~rot /\ j = 2
                    THEN RNeg(RMul(StarMatrix(RSub(xo[base + BodyDOF * node + 1], F.pos)),
                                   s.R_F))
                    ELSE IF rot /\ j = 2
                    THEN RMul(RotAzz(<<xo[base + BodyDOF * node + 2],
                                       xo[base + BodyDOF * node + 3]>>),
                              RotAzz(F.rot))
                    ELSE Q(0)])])])])]
        P2(n) ==
            [r |-> n, c |-> n,
             a |-> Tup([i \in 1..n |-> Tup([j \in 1..n |->
                IF i # j THEN Q(0)
                ELSE IF (i - 1) % BodyDOF_w = 0
                        /\ (i - 1) \div BodyDOF_w \in EveryOtherNode(n \div BodyDOF_w)
                     THEN s.R_F ELSE Q(1)])])]
    IN
    Let([P_B1 \in {P1(nb, 0)} |->
    Let([P_B2 \in {P2(nb)} |->
    Let([I_BB \in {MIdentity(nb, nb)} |->
        [s EXCEPT
          !.P_B1 = P_B1, !.P_B2 = P_B2,
          !.P_I1 = P1(ni, s.n_boundary_coords), !.P_I2 = P2(ni),
          !.P_W = SetBlock(MIdentity(nb + nm, nb + nm), 0, 0, P_B2),
          !.Y = SetBlock(MIdentity(nb + nm, nb + nm), 0, 0,
                         MMul(MT(P_B2), MSub(I_BB, MMul(P_B1, s.S))))]])])])])])])])])

-----------------------------------------------------------------------------
(* Reconstruction of the internal state, Update and IntStateScatter.       *)
(* fail: the IntStateScatter of the first internal item throws.            *)

\* m_custom_F_*_callback->evaluate(F, *this): the user's callback fills F
Evaluate(F) == Tup([i \in 1..Len(F) |-> Q(1)])

\* ChModalAssembly::SetInternalStateWithModes
SetInternalStateWithModes(s, fail) ==
    IF ~s.is_modal THEN s
    ELSE
    Let([bou_int_coords \in {s.n_boundary_coords + s.n_internal_coords} |->
    Let([bou_int_coords_w \in {s.n_boundary_coords_w + s.n_internal_coords_w} |->
    Let([bou_mod_coords \in {s.n_boundary_coords + s.n_modes_coords_w} |->
    Let([bou_mod_coords_w \in {s.n_boundary_coords_w + s.n_modes_coords_w} |->
    Let([nbw \in {s.n_boundary_coords_w} |->
    IF s.Psi.r # bou_int_coords_w \/ s.Psi.c # bou_mod_coords_w THEN s
    ELSE
    Let([g \in {IntStateGather(s, 0, VZero(bou_mod_coords), 0, VZero(bou_mod_coords_w))} |->
    Let([x0_mod \in {SetSegment(VZero(bou_mod_coords), 0,
                                segment(s.full_assembly_x_old, 0, s.n_boundary_coords))} |->
    Let([assembly_Dx_reduced \in {IntStateGetIncrement(s, 0, g.x, x0_mod, 0, VZero(bou_mod_coords_w)).Dv} |->
    Let([from_boundary \in {MMul3(s.P_I2, s.Psi_S, MT(s.P_B2))} |->
    Let([from_modes \in {MMul(s.P_I2, s.Psi_D)} |->
    LET recover(w) ==
            VAdd(MVec(from_boundary, segment(w, 0, nbw)),
                 MVec(from_modes, segment(w, nbw, s.n_modes_coords_w)))
    IN
    Let([assembly_Dx \in {SetSegment(SetSegment(VZero(bou_int_coords_w), 0,
                                                segment(assembly_Dx_reduced, 0, nbw)),
                                     nbw, recover(assembly_Dx_reduced))} |->
    Let([assembly_v \in {SetSegment(SetSegment(VZero(bou_int_coords_w), 0, segment(g.v, 0, nbw)),
                                    nbw, recover(g.v))} |->
    Let([t \in {[s EXCEPT !.is_modal = FALSE]} |->
    Let([inc \in {IntStateIncrement(t, 0, VZero(bou_int_coords), s.full_assembly_x_old,
                                    0, assembly_Dx)} |->
    Let([assembly_x_new \in {inc.x_new} |->
    Let([u \in {Touch([t EXCEPT !.trace.internal = @ \cup inc.internal], "IntStateScatter")} |->
        IF fail /\ HasInternalItems(s) THEN Throw(u, "sub-item")
        ELSE [u EXCEPT
               !.internal_bodylist =
                   Bodies_Scatter(@, 0 - s.offset_x, assembly_x_new,
                                  0 - s.offset_w, assembly_v),
               !.is_modal = TRUE,
               !.full_assembly_x_old = assembly_x_new]])])])])])])])])])])])])])])])])

\* ChModalAssembly::Update
Update(s, fail) ==
    IF ~s.is_modal
    THEN Let([t \in {Touch(s, "Update")} |->
             IF s.m_custom_F_full_callback
             THEN [t EXCEPT !.custom_F_full = Evaluate(@)] ELSE t])
    ELSE
    Let([a \in {IF s.internal_nodes_update THEN SetInternalStateWithModes(s, fail) ELSE s} |->
    IF Threw(a) THEN a
    ELSE
    Let([b \in {IF a.m_custom_F_modal_callback
                THEN [a EXCEPT !.custom_F_modal = Evaluate(@)] ELSE a} |->
    Let([c \in {IF b.m_custom_F_full_callback
                THEN [b EXCEPT !.custom_F_full = Evaluate(@)] ELSE b} |->
    Let([d \in {ComputeMassCenter(c)} |->
    Let([e \in {UpdateFloatingFrameOfReference(d)} |->
        UpdateTransformationMatrix(e)])])])])])

\* ChModalAssembly::IntStateScatter
IntStateScatter(s, off_x, x, off_v, v, fail) ==
    Let([displ_x \in {off_x - s.offset_x} |->
    Let([displ_v \in {off_v - s.offset_w} |->
    Let([p \in {[s EXCEPT !.bodylist = Bodies_Scatter(@, displ_x, x, displ_v, v)]} |->
        IF ~s.is_modal
        THEN
        Let([t \in {Touch(p, "IntStateScatter")} |->
            IF fail /\ HasInternalItems(s) THEN Throw(t, "sub-item")
            ELSE
            Let([u \in {[t EXCEPT !.internal_bodylist =
                                      Bodies_Scatter(@, displ_x, x, displ_v, v)]} |->
                IF u.m_custom_F_full_callback
                THEN [u EXCEPT !.custom_F_full = Evaluate(@)] ELSE u])])
        ELSE
        Let([q \in {[p EXCEPT
                      !.modal_q = segment(x, off_x + s.n_boundary_coords, s.n_modes_coords_w),
                      !.modal_q_dt = segment(v, off_v + s.n_boundary_coords_w,
                                             s.n_modes_coords_w)]} |->
        Let([a \in {IF q.internal_nodes_update THEN SetInternalStateWithModes(q, fail) ELSE q} |->
            IF Threw(a) THEN a
            ELSE
            Let([b \in {IF a.m_custom_F_modal_callback
                        THEN [a EXCEPT !.custom_F_modal = Evaluate(@)] ELSE a} |->
                IF b.m_custom_F_full_callback
                THEN [b EXCEPT !.custom_F_full = Evaluate(@)] ELSE b])])])])])])

-----------------------------------------------------------------------------
(* The tangent matrices of the reduced assembly, built at every step.      *)

\* the r x c matrix, zero but for M.block(6 i, 3, 3, 3) = vals[i] for each node i
TransRotBlocks(r, c, vals) ==
    [r |-> r, c |-> c,
     a |-> Tup([i \in 1..r |-> Tup([j \in 1..c |->
        IF j = 2 /\ (i - 1) % BodyDOF_w = 0 /\ (i - 1) \div BodyDOF_w < Len(vals)
        THEN vals[(i - 1) \div BodyDOF_w + 1] ELSE Q(0)])])]

\* the n x n matrix, zero but for M.block(6 i + off, 6 i + off, 3, 3) = vals[i]
DiagBlocks(n, off, vals) ==
    [r |-> n, c |-> n,
     a |-> Tup([i \in 1..n |-> Tup([j \in 1..n |->
        IF i = j /\ (i - 1) % BodyDOF_w = off /\ (i - 1) \div BodyDOF_w < Len(vals)
        THEN vals[(i - 1) \div BodyDOF_w + 1] ELSE Q(0)])])]

\* ChModalAssembly::ComputeInertialKRMmatrix
ComputeInertialKRMmatrix(s) ==
    Let([nbw \in {s.n_boundary_coords_w} |->
    Let([nm \in {s.n_modes_coords_w} |->
    Let([n \in {nbw + nm} |->
    Let([nn \in {nbw \div BodyDOF_w} |->
    Let([v_mod \in {IntStateGather(s, 0, VZero(s.n_boundary_coords + nm), 0, VZero(n)).v} |->
    Let([a_mod \in {IntStateGatherAcceleration(s, 0, VZero(n)).a} |->
    Let([M_red \in {s.M_red} |->
    Let([P_W \in {s.P_W} |->
    Let([U \in {s.U} |->
    LET \* the blocks V.block(6 i, 3, 3, 3) = star(w[6 i .. 6 i + 2]) of each node
        TransBlocks(w) ==
            TransRotBlocks(n, FrameDOF_w + nm,
                Tup([i \in 1..nn |-> StarMatrix(w[BodyDOF_w * (i - 1) + 1])]))
        \* the blocks O.block(6 i + 3, 6 i + 3, 3, 3) = star(w[6 i + 3 .. 6 i + 5])
        RotBlocks(w) ==
            DiagBlocks(n, 1, Tup([i \in 1..nn |-> StarMatrix(w[BodyDOF_w * (i - 1) + 2])]))
    IN
    Let([V \in {TransRotBlocks(n, FrameDOF_w + nm,
                    Tup([i \in 1..nn |->
                        StarMatrix(RMul(s.R_F, v_mod[BodyDOF_w * (i - 1) + 1]))]))} |->
    Let([O_B \in {RotBlocks(v_mod)} |->
    Let([O_F \in {DiagBlocks(n, 0, Tup([i \in 1..nn |-> StarMatrix(s.wloc_F)]))} |->
    Let([momen \in {MVec(M_red, MVec(MT(P_W), v_mod))} |->
    Let([centr \in {MVec(M_red, MVec(MT(P_W), a_mod))} |->
    Let([momen_F \in {MVec(O_F, momen)} |->
    Let([coriolis \in {MVec(M_red, MVec(V, MVec(U, v_mod)))} |->
    Let([V_acc \in {TransRotBlocks(n, FrameDOF_w + nm,
                        Tup([i \in 1..nn |->
                            StarMatrix(RMul(s.R_F, a_mod[BodyDOF_w * (i - 1) + 1]))]))} |->
    Let([V_rmom \in {TransBlocks(momen)} |->
    Let([O_thetamom \in {RotBlocks(momen)} |->
    Let([V_F1 \in {TransBlocks(centr)} |->
    Let([V_F2 \in {TransBlocks(momen_F)} |->
    Let([V_F3 \in {TransBlocks(coriolis)} |->
    Let([comm \in {MSub(MMul(O_F, M_red), MMul(M_red, O_F))} |->
    Let([Ri_1 \in {MMul3(P_W, MSub(MMul(M_red, V), V_rmom), U)} |->
    Let([mat_F \in {MMul4(P_W, O_F, M_red, MT(P_W))} |->
    Let([mat_B \in {MMul3(O_B, M_red, MT(P_W))} |->
    Let([mat_M \in {MMul4(P_W, M_red, V, U)} |->
        [s EXCEPT
          !.V = V, !.O_B = O_B, !.O_F = O_F, !.V_acc = V_acc, !.V_rmom = V_rmom,
          !.O_thetamom = O_thetamom, !.V_F1 = V_F1, !.V_F2 = V_F2, !.V_F3 = V_F3,
          !.M_sup = MMul3(P_W, M_red, MT(P_W)),
          !.Ri_sup = MSub(MAdd(MSub(MAdd(MMul3(P_W, comm, MT(P_W)), Ri_1), MT(Ri_1)),
                               MMul3(O_B, M_red, MT(P_W))),
                          O_thetamom),
          !.Ki_sup =
              MAdd(MAdd(MSub(MAdd(MSub(MMul4(P_W, comm, V, U),
                                       MMul(MMul4(MT(U), MT(V), M_red, V), U)),
                                  MMul4(O_B, M_red, V, U)),
                             MMul3(P_W, MAdd(MAdd(V_F1, V_F2), V_F3), U)),
                        MMul4(P_W, M_red, V_acc, U)),
                   MMul4(MT(U), MT(V_rmom), V, U)),
          !.g_quad = MVec(MSub(MAdd(MAdd(mat_F, mat_B), mat_M), MT(mat_M)),
                          v_mod)]])])])])])])])])])])])])])])])])])])])])])])])])])])])

\* ChModalAssembly::ComputeStiffnessMatrix
ComputeStiffnessMatrix(s) ==
    Let([nbw \in {s.n_boundary_coords_w} |->
    Let([nm \in {s.n_modes_coords_w} |->
    Let([nn \in {nbw \div BodyDOF_w} |->
    Let([F \in {s.floating_frame_F} |->
    Let([F0 \in {s.floating_frame_F0} |->
    Let([x_mod \in {IntStateGather(s, 0, VZero(s.n_boundary_coords + nm), 0, VZero(nbw + nm)).x} |->
    LET r_B(i) == x_mod[BodyDOF * i + 1]
        quat_bou(i) == <<x_mod[BodyDOF * i + 2], x_mod[BodyDOF * i + 3]>>
        r_BF0(i) ==
            RMul(RotA(F0.rot), RSub(s.modes_assembly_x0[BodyDOF * i + 1], F0.pos))
    IN
    Let([displ_loc \in {Tup([j \in 1..(nbw + nm) |->
                            IF j > nbw THEN s.modal_q[j - nbw]
                            ELSE IF (j - 1) % BodyDOF_w = 0
                            THEN RSub(RMul(s.R_F, RSub(r_B((j - 1) \div BodyDOF_w), F.pos)),
                                      r_BF0((j - 1) \div BodyDOF_w))
                            ELSE RSub(Q_to_Rotv(quat_bou((j - 1) \div BodyDOF_w)),
                                      RMul(RotAzz(quat_bou((j - 1) \div BodyDOF_w)),
                                           RMul(RotAzz(F.rot), Q_to_Rotv(F.rot))))])} |->
    Let([g_loc \in {MVec(s.K_red, displ_loc)} |->
    LET F_loc(i) == g_loc[BodyDOF_w * i + 1]
        M_loc(i) == g_loc[BodyDOF_w * i + 2]
    IN
    Let([Xi_F1 \in {DotTo(Tup([i \in 1..nn |-> s.R_F]),
                          Tup([i \in 1..nn |-> StarMatrix(F_loc(i - 1))]), nn)} |->
    Let([Xi_F3 \in {DotTo(Tup([i \in 1..nn |-> Q(1)]),
                          Tup([i \in 1..nn |->
                              RSub(RMul(RMul(StarMatrix(F_loc(i - 1)), s.R_F),
                                        RMul(StarMatrix(RSub(r_B(i - 1), F.pos)), s.R_F)),
                                   StarMatrix(RMul(RotAzz(F.rot),
                                                   RMul(RotAzz(quat_bou(i - 1)), M_loc(i - 1)))))]),
                          nn)} |->
    Let([Xi_H \in {[r |-> FrameDOF_w, c |-> nbw,
                    a |-> Tup([i \in 1..FrameDOF_w |-> Tup([j \in 1..nbw |->
                       IF i = 1 THEN Q(0)
                       ELSE IF (j - 1) % BodyDOF_w = 0
                       THEN RMul(StarMatrix(F_loc((j - 1) \div BodyDOF_w)), s.R_F)
                       ELSE RMul(RotAzz(F.rot),
                                 RMul(RotAzz(quat_bou((j - 1) \div BodyDOF_w)),
                                      StarMatrix(M_loc((j - 1) \div BodyDOF_w))))])])]} |->
    Let([Xi_V \in {TransRotBlocks(nbw, FrameDOF_w,
                       Tup([i \in 1..nn |-> RNeg(RMul(s.R_F, StarMatrix(F_loc(i - 1))))]))} |->
    Let([Xi_F \in {[r |-> FrameDOF_w, c |-> FrameDOF_w,
                    a |-> <<<<Q(0), Xi_F1>>, <<Xi_F1, Xi_F3>>>>]} |->
        [s EXCEPT
          !.g_loc = g_loc,
          !.Km_sup = MMul3(MT(s.Y), s.K_red, s.Y),
          !.Kg_sup = SetBlock(MZero(nbw + nm, nbw + nm), 0, 0,
                        MAdd(MAdd(MMul3(MT(s.S), Xi_F, s.S), MMul(MT(s.S), Xi_H)),
                             MMul(Xi_V, s.S)))]])])])])])])])])])])])])])

\* ChModalAssembly::ComputeDampingMatrix
ComputeDampingMatrix(s) == [s EXCEPT !.Rm_sup = MMul3(MT(s.Y), s.R_red, s.Y)]

\* ChModalAssembly::ComputeModalKRMmatrix
ComputeModalKRMmatrix(s) ==
    [s EXCEPT !.modal_M = s.M_sup,
              !.modal_K = MAdd(MAdd(s.Km_sup, s.Kg_sup), s.Ki_sup),
              !.modal_R = MAdd(s.Rm_sup, s.Ri_sup),
              !.modal_Cq = MMul(s.Cq_red, MT(s.P_W))]

\* KRMmatricesLoad that adds the scaled matrices to the block of the
\* descriptor
KRMmatricesLoad_accumulate(s, Kfactor, Rfactor, Mfactor) ==
    IF ~s.is_modal THEN Touch(s, "KRMmatricesLoad")
    ELSE
    Let([a \in {ComputeInertialKRMmatrix(s)} |->
    Let([b \in {ComputeStiffnessMatrix(a)} |->
    Let([c \in {ComputeDampingMatrix(b)} |->
    Let([t \in {ComputeModalKRMmatrix(c)} |->
        [t EXCEPT !.modal_Hblock.K =
            MAdd(@, MAdd(MAdd(MScale(Q(Kfactor), t.modal_K),
                              MScale(Q(Rfactor), t.modal_R)),
                         MScale(Q(Mfactor), t.modal_M)))]])])])])

\* ChModalAssembly::KRMmatricesLoad
KRMmatricesLoad(s, Kfactor, Rfactor, Mfactor) ==
    IF ~s.is_modal THEN Touch(s, "KRMmatricesLoad")
    ELSE
    Let([a \in {ComputeInertialKRMmatrix(s)} |->
    Let([b \in {ComputeStiffnessMatrix(a)} |->
    Let([c \in {ComputeDampingMatrix(b)} |->
    Let([t \in {ComputeModalKRMmatrix(c)} |->
        [t EXCEPT !.modal_Hblock.K =
            MAdd(MAdd(MScale(Q(Kfactor), t.modal_K), MScale(Q(Rfactor), t.modal_R)),
                 MScale(Q(Mfactor), t.modal_M))]])])])])

-----------------------------------------------------------------------------
(* The matrices of the full assembly, as the system descriptor returns     *)
(* them: one row and column per velocity coordinate of the variables the   *)
(* assembly injects, one Jacobian row per constraint it injects.           *)

\* the 0-based index of the first coordinate of the body id among the
\* injected variables, or -1 when that body is not injected
BodyIndexW(s, id) ==
    Let([all \in {IF s.is_modal THEN s.bodylist ELSE s.bodylist \o s.internal_bodylist} |->
    Let([hit \in {{i \in 1..Len(all) : all[i].id = id /\ IsActive(all[i])}} |->
        IF hit = {} THEN -1 ELSE all[CHOOSE i \in hit : TRUE].offset_w - s.offset_w])])

\* the (signed) entry of the direction of a two-point item on coordinate i
\* (0-based), for the translation (kind = 0) or the rotation (kind = 1)
Direction(s, item, kind, i) ==
    Let([ia \in {BodyIndexW(s, item.a)} |->
    Let([ib \in {BodyIndexW(s, item.b)} |->
        (IF ia >= 0 /\ i = ia + kind THEN 1 ELSE 0)
        - (IF ib >= 0 /\ i = ib + kind THEN 1 ELSE 0)])])

\* the stiffness entry (i, j) of the loads of a list
RECURSIVE LoadsK(_, _, _, _)
LoadsK(s, loads, i, j) ==
    IF loads = <<>> THEN Q(0)
    ELSE
    Let([l \in {Head(loads)} |->
    Let([w \in {Direction(s, l, 0, i) * Direction(s, l, 0, j)
                + Direction(s, l, 1, i) * Direction(s, l, 1, j)} |->
        RAdd(RMul(Q(w), l.k), LoadsK(s, Tail(loads), i, j))])])

\* ChSystemDescriptor::ConvertToMatrixForm after KRMmatricesLoad(0, 0, 1)
DescriptorMassMatrix(s) ==
    Let([n \in {s.ncoords_w} |->
    Let([all \in {IF s.is_modal THEN s.bodylist ELSE s.bodylist \o s.internal_bodylist} |->
    LET diag(i) ==
            Let([hit \in {{b \in 1..Len(all) :
                              IsActive(all[b]) /\ i - (all[b].offset_w - s.offset_w) \in {0, 1}}} |->
                IF hit = {} THEN Q(0)
                ELSE Let([b \in {all[CHOOSE b \in hit : TRUE]} |->
                         IF i = b.offset_w - s.offset_w THEN b.mass ELSE b.inertia])])
    IN
    Let([D \in {[r |-> n, c |-> n,
                 a |-> Tup([i \in 1..n |-> Tup([j \in 1..n |->
                          IF i = j THEN diag(i - 1) ELSE Q(0)])])]} |->
        IF s.is_modal THEN MAdd(D, s.modal_Hblock.K) ELSE D])])])

\* ChSystemDescriptor::ConvertToMatrixForm after KRMmatricesLoad(1, 0, 0)
DescriptorStiffnessMatrix(s) ==
    IF s.is_modal THEN s.modal_Hblock.K
    ELSE
    Let([loads \in {s.otherphysicslist \o s.internal_otherphysicslist} |->
        [r |-> s.ncoords_w, c |-> s.ncoords_w,
         a |-> Tup([i \in 1..s.ncoords_w |-> Tup([j \in 1..s.ncoords_w |->
                  LoadsK(s, loads, i - 1, j - 1)])])]])

\* ChSystemDescriptor::ConvertToMatrixForm after KRMmatricesLoad(0, 1, 0)
DescriptorDampingMatrix(s) ==
    IF s.is_modal THEN s.modal_Hblock.K ELSE MZero(s.ncoords_w, s.ncoords_w)

\* ChSystemDescriptor::ConvertToMatrixForm after ConstraintsLoadJacobians
DescriptorJacobianMatrix(s) ==
    Let([links \in {IF s.is_modal THEN s.linklist ELSE s.linklist \o s.internal_linklist} |->
    LET row(r, j) ==
            Let([hit \in {{l \in 1..Len(links) :
                              /\ links[l].active
                              /\ r - (links[l].offset_L - s.offset_L) \in 0..(links[l].doc - 1)}} |->
                IF hit = {} THEN Q(0)
                ELSE Let([l \in {links[CHOOSE l \in hit : TRUE]} |->
                         Q(Direction(s, l, r - (l.offset_L - s.offset_L), j))])])
    IN  [r |-> s.ndoc_w, c |-> s.ncoords_w,
         a |-> Tup([r \in 1..s.ndoc_w |-> Tup([j \in 1..s.ncoords_w |->
                  row(r - 1, j - 1)])])]])

\* ChModalAssembly::GetSubassemblyMassMatrix
GetSubassemblyMassMatrix(s, fail) ==
    Let([a \in {Setup(s)} |->
    Let([u \in {Update(a, fail)} |->
        IF Threw(u) THEN [s |-> u, M |-> MZero(0, 0)]
        ELSE Let([t \in {KRMmatricesLoad(u, 0, 0, 1)} |->
                 [s |-> t, M |-> DescriptorMassMatrix(t)]])])])

\* ChModalAssembly::GetSubassemblyStiffnessMatrix
GetSubassemblyStiffnessMatrix(s, fail) ==
    Let([a \in {Setup(s)} |->
    Let([u \in {Update(a, fail)} |->
        IF Threw(u) THEN [s |-> u, M |-> MZero(0, 0)]
        ELSE Let([t \in {KRMmatricesLoad(u, 1, 0, 0)} |->
                 [s |-> t, M |-> DescriptorStiffnessMatrix(t)]])])])

\* ChModalAssembly::GetSubassemblyDampingMatrix
GetSubassemblyDampingMatrix(s, fail) ==
    Let([a \in {Setup(s)} |->
    Let([u \in {Update(a, fail)} |->
        IF Threw(u) THEN [s |-> u, M |-> MZero(0, 0)]
        ELSE Let([t \in {KRMmatricesLoad(u, 0, 1, 0)} |->
                 [s |-> t, M |-> DescriptorDampingMatrix(t)]])])])

\* ChModalAssembly::GetSubassemblyConstraintJacobianMatrix
GetSubassemblyConstraintJacobianMatrix(s, fail) ==
    Let([a \in {Setup(s)} |->
    Let([u \in {Update(a, fail)} |->
        IF Threw(u) THEN [s |-> u, M |-> MZero(0, 0)]
        ELSE [s |-> IF u.is_modal THEN u ELSE Touch(u, "ConstraintsLoadJacobians"),
              M |-> DescriptorJacobianMatrix(u)]])])

-----------------------------------------------------------------------------
(* The steps of the reduction.                                             *)

\* ChModalAssembly::CpmputeSelectionMatrix
CpmputeSelectionMatrix(s) ==
    Let([act \in {ActiveBodies(s.bodylist)} |->
    Let([n_bou \in {s.n_boundary_bodies} |->
    Let([pos_bou \in {[r |-> 1, c |-> n_bou, a |-> <<Tup([i \in 1..n_bou |-> act[i].pos])>>]} |->
    Let([top \in {MMul(MT(pos_bou), pos_bou)} |->
    Let([A \in {[r |-> n_bou + 1, c |-> n_bou,
                 a |-> Tup([i \in 1..(n_bou + 1) |-> Tup([j \in 1..n_bou |->
                          IF i <= n_bou THEN top.a[i][j] ELSE Q(1)])])]} |->
    Let([v \in {Tup([i \in 1..(n_bou + 1) |->
                    IF i <= n_bou THEN RMul(act[i].pos, s.com_x) ELSE Q(1)])} |->
    Let([alpha \in {SolveLeastSquares(A, v)} |->
        [s EXCEPT !.S =
            [r |-> FrameDOF_w, c |-> BodyDOF_w * n_bou,
             a |-> Tup([i \in 1..FrameDOF_w |-> Tup([j \in 1..(BodyDOF_w * n_bou) |->
                      IF (j - 1) % BodyDOF_w = i - 1
                      THEN alpha[(j - 1) \div BodyDOF_w + 1] ELSE Q(0)])])]]])])])])])])])

\* the rotation operator P_BI of ComputeLocalFullKRMmatrix: the identity
\* with R_F written on the translation of the nodes its two loops visit
P_BI_of(t) ==
    Let([nb \in {t.n_boundary_coords_w} |->
    Let([ni \in {t.n_internal_coords_w} |->
        [r |-> nb + ni, c |-> nb + ni,
         a |-> Tup([i \in 1..(nb + ni) |-> Tup([j \in 1..(nb + ni) |->
            IF i # j THEN Q(0)
            ELSE IF i <= nb
            THEN (IF (i - 1) % BodyDOF_w = 0
                     /\ (i - 1) \div BodyDOF_w \in EveryOtherNode(nb \div BodyDOF_w)
                  THEN t.R_F ELSE Q(1))
            ELSE (IF (i - nb - 1) % BodyDOF_w = 0
                     /\ (i - nb - 1) \div BodyDOF_w
                            \in EveryOtherNode(ni \div BodyDOF_w)
                  THEN t.R_F ELSE Q(1))])])]])])

\* ChModalAssembly::ComputeLocalFullKRMmatrix
ComputeLocalFullKRMmatrix(s, fail) ==
    Let([m \in {GetSubassemblyMassMatrix(s, fail)} |->
    IF Threw(m.s) THEN m.s
    ELSE
    Let([k \in {GetSubassemblyStiffnessMatrix(m.s, fail)} |->
    IF Threw(k.s) THEN k.s
    ELSE
    Let([r \in {GetSubassemblyDampingMatrix(k.s, fail)} |->
    IF Threw(r.s) THEN r.s
    ELSE
    Let([cq \in {GetSubassemblyConstraintJacobianMatrix(r.s, fail)} |->
    IF Threw(cq.s) THEN cq.s
    ELSE
    Let([t \in {cq.s} |->
    Let([nb \in {t.n_boundary_coords_w} |->
    Let([ni \in {t.n_internal_coords_w} |->
    Let([P_BI \in {P_BI_of(t)} |->
    Let([P_BI_T \in {MT(P_BI)} |->
        [t EXCEPT !.full_M_loc = MMul3(P_BI_T, m.M, P_BI),
                  !.full_K_loc = MMul3(P_BI_T, k.M, P_BI),
                  !.full_R_loc = MMul3(P_BI_T, r.M, P_BI),
                  !.full_Cq_loc = MMul(cq.M, P_BI)]])])])])])])])])])

\* column c (1-based) of the mode shapes returned for a problem with n
\* unknowns: the rigid translation first, then unit translations of single
\* nodes, from the last node backwards
ModeShape(c, n) ==
    Let([nn \in {n \div BodyDOF_w} |->
        Tup([i \in 1..n |->
            IF (i - 1) % BodyDOF_w # 0 THEN Q(0)
            ELSE IF c = 1 THEN Q(1)
            ELSE IF nn > 0 /\ (i - 1) \div BodyDOF_w = (nn - 1) - ((c - 2) % nn)
            THEN Q(1) ELSE Q(0)])])

\* ChModalSolveUndamped::Solve: one column per requested mode, at most as
\* many as the problem has unknowns
ModalSolve(M, K, Cq, n_modes) ==
    Let([k \in {IF n_modes < M.r THEN n_modes ELSE M.r} |->
        [V |-> [r |-> M.r, c |-> k,
                a |-> Tup([i \in 1..M.r |-> Tup([j \in 1..k |-> ModeShape(j, M.r)[i]])])],
         eig |-> Tup([j \in 1..k |-> Q(j - 1)]),
         freq |-> Tup([j \in 1..k |-> Q(j - 1)])]])

\* an eigen-solve that has written its results into the assembly when it
\* fails
SolveEigenvalue_written(s, full_M, full_K, full_Cq, n_modes, solver_ok) ==
    Let([res \in {ModalSolve(full_M, full_K, full_Cq, n_modes)} |->
    Let([z \in {[s EXCEPT !.trace.eigen_solves = @ + 1,
                          !.modes_V = res.V, !.modes_eig = res.eig,
                          !.modes_freq = res.freq,
                          !.modes_damping_ratio = VZero(Len(res.freq))]} |->
        IF solver_ok THEN z ELSE Throw(z, "solver")])])

\* ChModalAssembly::ComputeModesExternalData, the call of the eigen-solver:
\* the mode set is assigned when the solver returns
SolveEigenvalue(s, full_M, full_K, full_Cq, n_modes, solver_ok) ==
    Let([w \in {[s EXCEPT !.trace.eigen_solves = @ + 1]} |->
    IF ~solver_ok THEN Throw(w, "solver")
    ELSE
    Let([res \in {ModalSolve(full_M, full_K, full_Cq, n_modes)} |->
        [w EXCEPT !.modes_V = res.V, !.modes_eig = res.eig,
                  !.modes_freq = res.freq,
                  !.modes_damping_ratio = VZero(Len(res.freq))]])])

\* ChModalAssembly::ComputeModesExternalData
\* solver_ok: the eigen-solver returns (it throws otherwise)
ComputeModesExternalData(s, full_M, full_K, full_Cq, n_modes, solver_ok, fail) ==
    Let([a \in {Setup(s)} |->
    Let([u \in {Update(a, fail)} |->
    IF Threw(u) THEN u
    ELSE
    Let([x0 \in {IntStateGather(u, 0, VZero(u.ncoords), 0, VZero(u.ncoords_w))} |->
    Let([t \in {Setup([u EXCEPT !.modes_assembly_x0 = x0.x,
                                !.trace.internal = @ \cup x0.internal])} |->
    IF full_M.r # t.ncoords_w \/ full_K.r # t.ncoords_w \/ full_Cq.c # t.ncoords_w
    THEN Throw(t, "assert")
    ELSE
    Let([z \in {SolveEigenvalue(t, full_M, full_K, full_Cq, n_modes, solver_ok)} |->
        IF Threw(z) THEN z ELSE Setup(z)])])])])])

\* ChModalAssembly::ComputeModes
ComputeModes(s, n_modes, solver_ok, fail) ==
    Let([m \in {GetSubassemblyMassMatrix(s, fail)} |->
    IF Threw(m.s) THEN m.s
    ELSE
    Let([k \in {GetSubassemblyStiffnessMatrix(m.s, fail)} |->
    IF Threw(k.s) THEN k.s
    ELSE
    Let([cq \in {GetSubassemblyConstraintJacobianMatrix(k.s, fail)} |->
    IF Threw(cq.s) THEN cq.s
    ELSE ComputeModesExternalData(cq.s, m.M, k.M, cq.M, n_modes, solver_ok, fail)])])])

\* ChModalAssembly::SetModalMode
SetModalMode(s, mmodal) == Let([t \in {[s EXCEPT !.is_modal = mmodal]} |-> Setup(t)])

\* ChModalAssembly::SetupModalData
SetupModalData(s0, nmodes_reduction) ==
    Let([s1 \in {[s0 EXCEPT !.n_modes_coords_w = nmodes_reduction]} |->
    Let([s \in {Setup(s1)} |->
    Let([nb \in {s.n_boundary_coords_w} |->
    Let([ni \in {s.n_internal_coords_w} |->
    Let([nm \in {s.n_modes_coords_w} |->
    Let([Z \in {MZero(nb + nm, nb + nm)} |->
    Let([ZV \in {MZero(nb + nm, FrameDOF_w + nm)} |->
    Let([U \in {[r |-> FrameDOF_w + nm, c |-> nb + nm,
                 a |-> Tup([i \in 1..(FrameDOF_w + nm) |-> Tup([j \in 1..(nb + nm) |->
                    IF i <= FrameDOF_w /\ j <= nb THEN s.S.a[i][j]
                    ELSE IF i > FrameDOF_w /\ j > nb /\ i - FrameDOF_w = j - nb
                    THEN Q(1) ELSE Q(0)])])]} |->
    Let([t \in {[s EXCEPT
                  !.P_B1 = MZero(nb, FrameDOF_w), !.P_B2 = MZero(nb, nb),
                  !.P_I1 = MZero(ni, FrameDOF_w), !.P_I2 = MZero(ni, ni),
                  !.P_W = Z, !.Y = Z, !.O_B = Z, !.V = ZV, !.O_F = Z,
                  !.V_acc = ZV, !.V_rmom = ZV, !.O_thetamom = Z,
                  !.V_F1 = ZV, !.V_F2 = ZV, !.V_F3 = ZV,
                  !.M_red = Z, !.K_red = Z, !.R_red = Z,
                  !.Cq_red = MZero(s.n_boundary_doc_w, nb + nm),
                  !.Km_sup = Z, !.Kg_sup = Z, !.Rm_sup = Z, !.M_sup = Z,
                  !.Ri_sup = Z, !.Ki_sup = Z,
                  !.U = U]} |->
        IF t.modal_variables.ptr # "live" \/ t.modal_variables.ndof # nm
        THEN [t EXCEPT
               !.modal_variables = [ptr |-> "live", ndof |-> nm,
                                    qb |-> VZero(nm), fb |-> VZero(nm)],
               !.modal_Hblock = [K |-> Z],
               !.modal_q = VZero(nm), !.modal_q_dt = VZero(nm),
               !.modal_q_dtdt = VZero(nm),
               !.custom_F_modal = VZero(nm),
               !.custom_F_full = VZero(nb + ni)]
        ELSE t])])])])])])])])])

\* an assembly that leaves the constraints out
util_sparse_assembly_2x2symm_plain(H, Cq) == H

\* util_sparse_assembly_2x2symm: H bordered with Cq
util_sparse_assembly_2x2symm(H, Cq) ==
    Let([n_v \in {H.r} |->
    Let([n_c \in {Cq.r} |->
        [r |-> n_v + n_c, c |-> n_v + n_c,
         a |-> Tup([i \in 1..(n_v + n_c) |-> Tup([j \in 1..(n_v + n_c) |->
            IF i <= n_v /\ j <= n_v THEN H.a[i][j]
            ELSE IF i > n_v /\ j <= n_v THEN Cq.a[i - n_v][j]
            ELSE IF i <= n_v /\ j > n_v THEN Cq.a[j - n_v][i]
            ELSE Q(0)])])]])])

\* ChModalDamping::ComputeR of the damping model given to the reduction
DampingModel_ComputeR(M_red, K_red, Psi) == MScale(Q(1), K_red)

\* a reduction that leaves the boundary bodies their mass
RemoveMass_none(list) == list

\* the results of the eigenvalue analysis are kept after the reduction
DoModalReduction_keep(s) == s

\* ChModalAssembly::DoModalReduction, its last lines: the results of the
\* eigenvalue analysis are invalidated
DoModalReduction_invalidate(s) ==
    [s EXCEPT !.modes_damping_ratio = <<>>,
              !.modes_eig = <<>>,
              !.modes_freq = <<>>,
              !.modes_V = MZero(0, 0)]

\* ChModalAssembly::DoModalReduction, its loop over bodylist: the boundary
\* bodies lose their mass and inertia
RemoveMass(list) ==
    Tup([i \in 1..Len(list) |-> [list[i] EXCEPT !.mass = Q(0), !.inertia = Q(0)]])

\* ChModalAssembly::DoModalReduction: the internal block of the stiffness
\* bordered by the internal constraints, K_IIc = [K_II Cq_II'; Cq_II 0]
K_IIc_loc_of(s) ==
    util_sparse_assembly_2x2symm(
        block(s.full_K_loc, s.n_boundary_coords_w, s.n_boundary_coords_w,
              s.n_internal_coords_w, s.n_internal_coords_w),
        block(s.full_Cq_loc, s.n_boundary_doc_w, s.n_boundary_coords_w,
              s.n_internal_doc_w, s.n_internal_coords_w))

\* ChModalAssembly::DoModalReduction: the right-hand side of the solve for
\* column i (0-based) of the static modes
StaticRhs(s, i) ==
    Let([K_IB_loc \in {block(s.full_K_loc, s.n_boundary_coords_w, 0,
                             s.n_internal_coords_w, s.n_boundary_coords_w)} |->
    Let([Cq_IB_loc \in {block(s.full_Cq_loc, s.n_boundary_doc_w, 0,
                              s.n_internal_doc_w, s.n_boundary_coords_w)} |->
        IF s.n_internal_doc_w # 0
        THEN MCol(K_IB_loc, i + 1) \o MCol(Cq_IB_loc, i + 1)
        ELSE MCol(K_IB_loc, i + 1)])])

\* ChModalAssembly::DoModalReduction: the right-hand side of the solve for
\* column i (0-based) of the dynamic modes
DynamicRhs(s, rhs_top, i) ==
    IF s.n_internal_doc_w # 0
    THEN MCol(rhs_top, i + 1) \o VZero(s.n_internal_doc_w)
    ELSE MCol(rhs_top, i + 1)

\* x.head(n)
head(x, n) == Tup([r \in 1..n |-> x[r]])

\* ChModalAssembly::DoModalReduction
DoModalReduction(s) ==
    Let([nb \in {s.n_boundary_coords_w} |->
    Let([ni \in {s.n_internal_coords_w} |->
    Let([nm \in {s.n_modes_coords_w} |->
    Let([nd \in {s.n_internal_doc_w} |->
    Let([V_B \in {block(s.modes_V, 0, 0, nb, nm)} |->
    Let([V_I \in {block(s.modes_V, nb, 0, ni, nm)} |->
    Let([K_IIc_loc \in {K_IIc_loc_of(s)} |->
    Let([rhsS \in {Tup([i \in 1..nb |-> StaticRhs(s, i - 1)])} |->
    Let([xS \in {Tup([i \in 1..nb |-> head(SolveQR(K_IIc_loc, rhsS[i]), ni)])} |->
    Let([Psi_S \in {[r |-> ni, c |-> nb,
                     a |-> Tup([r \in 1..ni |-> Tup([i \in 1..nb |-> RNeg(xS[i][r])])])]} |->
    Let([M_II_loc \in {block(s.full_M_loc, nb, nb, ni, ni)} |->
    Let([M_IB_loc \in {block(s.full_M_loc, nb, 0, ni, nb)} |->
    Let([rhs_top \in {MAdd(MMul(M_IB_loc, V_B), MMul(M_II_loc, V_I))} |->
    Let([rhsD \in {Tup([i \in 1..nm |-> DynamicRhs(s, rhs_top, i - 1)])} |->
    Let([xD \in {Tup([i \in 1..nm |-> head(SolveQR(K_IIc_loc, rhsD[i]), ni)])} |->
    Let([Psi_D \in {[r |-> ni, c |-> nm,
                     a |-> Tup([r \in 1..ni |-> Tup([i \in 1..nm |-> RNeg(xD[i][r])])])]} |->
    Let([Psi \in {[r |-> nb + ni, c |-> nb + nm,
                   a |-> Tup([i \in 1..(nb + ni) |-> Tup([j \in 1..(nb + nm) |->
                      IF i <= nb THEN (IF i = j THEN Q(1) ELSE Q(0))
                      ELSE IF j <= nb THEN Psi_S.a[i - nb][j]
                      ELSE Psi_D.a[i - nb][j - nb]])])]} |->
    Let([M_red \in {MMul3(MT(Psi), s.full_M_loc, Psi)} |->
    Let([K_red \in {MMul3(MT(Psi), s.full_K_loc, Psi)} |->
    Let([Cq_B_loc \in {block(s.full_Cq_loc, 0, 0, s.n_boundary_doc_w, s.full_Cq_loc.c)} |->
    Let([R_model \in {DampingModel_ComputeR(M_red, K_red, Psi)} |->
        DoModalReduction_invalidate([s EXCEPT
          !.Psi_S = Psi_S, !.Psi_D = Psi_D, !.Psi = Psi,
          !.M_red = M_red, !.K_red = K_red,
          !.Cq_red = MMul(Cq_B_loc, Psi),
          !.R_red = MZero(R_model.r, R_model.c),
          !.bodylist = RemoveMass(s.bodylist),
          !.trace.factorizations = @ + 1,
          !.trace.solves =
              {[modes |-> "static", dim |-> K_IIc_loc.r, rhs |-> Len(rhsS[i])] : i \in 1..nb}
              \cup {[modes |-> "dynamic", dim |-> K_IIc_loc.r, rhs |-> Len(rhsD[i])] :
                        i \in 1..nm}])])])])])])])])])])])])])])])])])])])])])])

\* ChModalAssembly::SetupInitial
SetupInitial(s) == Touch(s, "SetupInitial")

\* a switch that gives the eigen-solver the matrices of the caller
EigenInput_supplied(s, full_M, full_K, full_Cq) ==
    [M |-> full_M, K |-> full_K, Cq |-> full_Cq]

\* ChModalAssembly::SwitchModalReductionON(full_M, full_K, full_Cq, ...):
\* the matrices given to the eigen-solver are the localized ones of the
\* assembly
EigenInput(s, full_M, full_K, full_Cq) ==
    [M |-> s.full_M_loc, K |-> s.full_K_loc, Cq |-> s.full_Cq_loc]

\* ChModalAssembly::SwitchModalReductionON(full_M, full_K, full_Cq, ...):
\* the matrices given by the caller are not read
SwitchModalReductionON_matrices(s, full_M, full_K, full_Cq, n_modes, solver_ok, fail) ==
    IF s.is_modal THEN s
    ELSE
    Let([a0 \in {SetupInitial(s)} |->
    Let([a1 \in {Setup(a0)} |->
    Let([a \in {Update(a1, fail)} |->
    IF Threw(a) THEN a
    ELSE
    Let([g \in {IntStateGather(a, 0, VZero(a.ncoords), 0, VZero(a.ncoords_w))} |->
    Let([b0 \in {[a EXCEPT !.full_assembly_x_old = g.x,
                           !.trace.internal = @ \cup g.internal]} |->
    Let([b1 \in {ComputeMassCenter(b0)} |->
    Let([b2 \in {CpmputeSelectionMatrix(b1)} |->
    Let([b \in {UpdateFloatingFrameOfReference(b2)} |->
    Let([c0 \in {Step([b EXCEPT !.floating_frame_F0 = b.floating_frame_F], "frame")} |->
    Let([c1 \in {ComputeLocalFullKRMmatrix(c0, fail)} |->
    IF Threw(c1) THEN c1
    ELSE
    Let([c \in {Step(c1, "localization")} |->
    Let([ei \in {EigenInput(c, full_M, full_K, full_Cq)} |->
    Let([d0 \in {ComputeModesExternalData([c EXCEPT !.trace.eigen_input = ei],
                                          ei.M, ei.K, ei.Cq, n_modes, solver_ok, fail)} |->
    IF Threw(d0) THEN d0
    ELSE
    Let([d \in {Step(d0, "eigen-solve")} |->
    Let([e0 \in {SetModalMode(d, TRUE)} |->
    Let([e1 \in {SetupModalData(e0, e0.modes_V.c)} |->
    Let([e \in {UpdateTransformationMatrix(e1)} |->
    Let([f0 \in {Step(DoModalReduction(e), "basis")} |->
    Let([f1 \in {ComputeInertialKRMmatrix(f0)} |->
    Let([f2 \in {ComputeStiffnessMatrix(f1)} |->
    Let([f3 \in {ComputeDampingMatrix(f2)} |->
        Step(ComputeModalKRMmatrix(f3), "reduced")])])])])])])])])])])])])])])])])])])])])])

\* SwitchModalReductionON(n_modes_settings, damping_model) that goes on
\* without the full matrices
SwitchModalReductionON_unassembled(s, n_modes, solver_ok, fail) ==
    SwitchModalReductionON_matrices(s, MZero(0, 0), MZero(0, 0), MZero(0, 0),
                                    n_modes, solver_ok, fail)

\* ChModalAssembly::SwitchModalReductionON(n_modes_settings, damping_model)
SwitchModalReductionON(s, n_modes, solver_ok, fail) ==
    IF s.is_modal THEN s
    ELSE
    Let([m \in {GetSubassemblyMassMatrix(s, fail)} |->
    IF Threw(m.s) THEN m.s
    ELSE
    Let([k \in {GetSubassemblyStiffnessMatrix(m.s, fail)} |->
    IF Threw(k.s) THEN k.s
    ELSE
    Let([cq \in {GetSubassemblyConstraintJacobianMatrix(k.s, fail)} |->
    IF Threw(cq.s) THEN cq.s
    ELSE SwitchModalReductionON_matrices(Step(cq.s, "assembly"), m.M, k.M, cq.M,
                                         n_modes, solver_ok, fail)])])])

-----------------------------------------------------------------------------
(* Mode overlay, residuals and the exchange with the system descriptor.    *)

\* ChModalAssembly::SetFullStateWithModeOverlay, from the choice of the
\* eigenvector on: the mode shape n_mode laid over modes_assembly_x0;
\* amplitude stands for sin(phase) * amplitude, the mode shapes being real
ModeOverlay(s, n_mode, amplitude, fail) ==
    Let([Dx_loc \in {VScale(Q(amplitude), MCol(s.modes_V, n_mode + 1))} |->
    Let([Dx \in {Tup([j \in 1..s.ncoords_w |->
                     IF (j - 1) \div BodyDOF_w >= s.ncoords_w \div BodyDOF_w THEN Q(0)
                     ELSE IF (j - 1) % BodyDOF_w = 0 THEN RMul(s.R_F, Dx_loc[j])
                     ELSE Dx_loc[j]])} |->
    Let([inc \in {IntStateIncrement(s, 0, VZero(s.ncoords), s.modes_assembly_x0, 0, Dx)} |->
    Let([t \in {[s EXCEPT !.trace.internal = @ \cup inc.internal]} |->
    Let([sc \in {IntStateScatter(t, 0, inc.x_new, 0, VZero(s.ncoords_w), fail)} |->
        IF Threw(sc) THEN sc ELSE Update(sc, fail)])])])])])

\* SetFullStateWithModeOverlay that takes the last computed mode for an
\* index beyond the computed modes
SetFullStateWithModeOverlay_clamped(s, n_mode, amplitude, fail) ==
    IF s.modes_V.c = 0 \/ s.modes_V.r # s.ncoords_w THEN Update(s, fail)
    ELSE ModeOverlay(s, IF n_mode >= s.modes_V.c THEN s.modes_V.c - 1 ELSE n_mode,
                     amplitude, fail)

\* ChModalAssembly::SetFullStateWithModeOverlay
SetFullStateWithModeOverlay(s, n_mode, amplitude, fail) ==
    IF n_mode >= s.modes_V.c
    THEN Let([u \in {Update(s, fail)} |->
             IF Threw(u) THEN u ELSE Throw(u, "mode beyond computed")])
    ELSE IF s.modes_V.r # s.ncoords_w THEN Update(s, fail)
    ELSE ModeOverlay(s, n_mode, amplitude, fail)

\* ChBody::IntLoadResidual_Mv over a list: R += c * M * w
Bodies_LoadResidual_Mv(list, displ_v, R, w, c) ==
    Tup([j \in 1..Len(R) |->
        Let([i \in {Owner(list, displ_v, j, BodyDOF_w, TRUE)} |->
            IF i = 0 THEN R[j]
            ELSE RAdd(R[j], RMul(Q(c), RMul(IF j - (displ_v + list[i].offset_w) = 1
                                            THEN list[i].mass ELSE list[i].inertia,
                                            w[j])))])])

\* v(off .. off + Len(w)) += w
AddSegment(v, start, w) ==
    Let([a \in {v}, b \in {w} |-> SetSegment(a, start, VAdd(segment(a, start, Len(b)), b))])

\* ChModalAssembly::IntLoadResidual_F (no item of the model exerts a force
\* of its own)
IntLoadResidual_F(s, off, R, c) ==
    IF ~s.is_modal
    THEN [R |-> IF VIsZero(s.custom_F_full) THEN R
                ELSE AddSegment(R, off - s.offset_w, VScale(Q(c), s.custom_F_full)),
          internal |-> InternalCalls(s, "IntLoadResidual_F"),
          exc |-> ""]
    ELSE
    Let([nb \in {s.n_boundary_coords_w} |->
    Let([ni \in {s.n_internal_coords_w} |->
    Let([nm \in {s.n_modes_coords_w} |->
    Let([inc \in {GetStateIncrement(s)} |->
    Let([elastic \in {VAdd(VAdd(MVec(s.modal_K, inc.Dx), MVec(s.modal_R, inc.v)), s.g_quad)} |->
    Let([R1 \in {AddSegment(R, off, VScale(Q(-c), elastic))} |->
    Let([R2 \in {IF VIsZero(s.custom_F_modal) THEN R1
                 ELSE AddSegment(R1, off + nb, VScale(Q(c), segment(s.custom_F_modal, 0, nm)))} |->
    LET tailF == segment(s.custom_F_full, Len(s.custom_F_full) - ni, ni)
        F_reduced ==
            VAdd(segment(s.custom_F_full, 0, nb),
                 MVec(MMul3(s.P_B2, MT(s.Psi_S), MT(s.P_I2)), tailF))
              \o MVec(MMul(MT(s.Psi_D), MT(s.P_I2)), tailF)
    IN  [R |-> IF VIsZero(s.custom_F_full) THEN R2
               ELSE AddSegment(R2, off, VScale(Q(c), F_reduced)),
         internal |-> inc.internal,
         exc |-> IF ~VIsZero(s.custom_F_modal) /\ Len(s.custom_F_modal) # nm
                 THEN "size mismatch" ELSE ""]])])])])])])])

\* ChModalAssembly::IntLoadResidual_Mv
IntLoadResidual_Mv(s, off, R, w, c) ==
    IF ~s.is_modal
    THEN Let([R1 \in {Bodies_LoadResidual_Mv(s.bodylist, off - s.offset_w, R, w, c)} |->
             [R |-> Bodies_LoadResidual_Mv(s.internal_bodylist, off - s.offset_w,
                                           R1, w, c),
              internal |-> InternalCalls(s, "IntLoadResidual_Mv")]])
    ELSE [R |-> AddSegment(R, off,
                    VScale(Q(c), MVec(s.modal_M,
                        segment(w, off, s.n_boundary_coords_w + s.n_modes_coords_w)))),
          internal |-> {}]

\* ChBody::IntToDescriptor over a list: the variables take v and R
Bodies_ToDescriptor(list, displ_v, v, R) ==
    Tup([i \in 1..Len(list) |->
        IF IsActive(list[i])
        THEN [list[i] EXCEPT !.qb = segment(v, displ_v + list[i].offset_w, BodyDOF_w),
                             !.fb = segment(R, displ_v + list[i].offset_w, BodyDOF_w)]
        ELSE list[i]])

\* ChBody::IntFromDescriptor over a list: v takes the variables
Bodies_FromDescriptor(list, displ_v, v) ==
    Tup([j \in 1..Len(v) |->
        Let([i \in {Owner(list, displ_v, j, BodyDOF_w, TRUE)} |->
            IF i = 0 THEN v[j] ELSE list[i].qb[j - (displ_v + list[i].offset_w)]])])

\* ChModalAssembly::IntToDescriptor
IntToDescriptor(s, off_v, v, R) ==
    Let([displ_v \in {off_v - s.offset_w} |->
    Let([p \in {[s EXCEPT !.bodylist = Bodies_ToDescriptor(@, displ_v, v, R)]} |->
        IF ~s.is_modal
        THEN Touch([p EXCEPT !.internal_bodylist = Bodies_ToDescriptor(@, displ_v, v, R)],
                   "IntToDescriptor")
        ELSE [p EXCEPT
               !.modal_variables.qb =
                   segment(v, off_v + s.n_boundary_coords_w, s.n_modes_coords_w),
               !.modal_variables.fb =
                   segment(R, off_v + s.n_boundary_coords_w, s.n_modes_coords_w)]])])

\* ChModalAssembly::IntFromDescriptor
IntFromDescriptor(s, off_v, v) ==
    Let([displ_v \in {off_v - s.offset_w} |->
    Let([p \in {Bodies_FromDescriptor(s.bodylist, displ_v, v)} |->
        IF ~s.is_modal
        THEN [v |-> Bodies_FromDescriptor(s.internal_bodylist, displ_v, p),
              internal |-> InternalCalls(s, "IntFromDescriptor")]
        ELSE [v |-> SetSegment(p, off_v + s.n_boundary_coords_w, s.modal_variables.qb),
              internal |-> {}]])])

\* the ids of a list of items
Ids(list) == Tup([i \in 1..Len(list) |-> list[i].id])

\* InjectVariables that inserts the variables of the internal bodies in
\* either mode
InjectVariables_all(s) ==
    [vars |-> Ids(s.bodylist) \o Ids(s.internal_bodylist)
                \o (IF s.is_modal THEN <<"modal_variables">> ELSE <<>>),
     internal |-> InternalCalls(s, "InjectVariables")]

\* ChModalAssembly::InjectVariables: the variables inserted in the descriptor
InjectVariables(s) ==
    IF ~s.is_modal
    THEN [vars |-> Ids(s.bodylist) \o Ids(s.internal_bodylist),
          internal |-> InternalCalls(s, "InjectVariables")]
    ELSE [vars |-> Ids(s.bodylist) \o <<"modal_variables">>, internal |-> {}]

\* ChModalAssembly::InjectKRMmatrices: the blocks inserted in the descriptor
InjectKRMmatrices(s) ==
    IF ~s.is_modal
    THEN [blocks |-> Ids(s.otherphysicslist) \o Ids(s.internal_otherphysicslist),
          internal |-> InternalCalls(s, "InjectKRMmatrices")]
    ELSE [blocks |-> <<"modal_Hblock">>, internal |-> {}]

-----------------------------------------------------------------------------
(* The internal item lists.                                                *)

\* a mesh without nodes; system is the system that owns it ("null": none,
\* "this": the system of the assembly)
OwnedMesh(id, system) ==
    [id |-> id, system |-> system, offset_x |-> 0, offset_w |-> 0, offset_L |-> 0]

InList(list, id) == \E i \in 1..Len(list) : list[i].id = id

\* ChModalAssembly::AddInternalMesh
AddInternalMesh(s, mesh) ==
    IF InList(s.internal_meshlist, mesh.id) THEN Throw(s, "assert")
    ELSE [s EXCEPT !.internal_meshlist = Append(@, [mesh EXCEPT !.system = "this"])]

\* ChModalAssembly::RemoveInternalMesh
RemoveInternalMesh(s, id) ==
    IF ~InList(s.internal_meshlist, id) THEN Throw(s, "assert")
    ELSE [s EXCEPT !.internal_meshlist = SelectSeq(@, LAMBDA m : m.id # id)]

\* ChModalAssembly::RemoveAllInternalBodies, RemoveAllInternalLinks,
\* RemoveAllInternalMeshes and RemoveAllInternalOtherPhysicsItems
RemoveAllInternal(s) ==
    [s EXCEPT !.internal_bodylist = <<>>, !.internal_linklist = <<>>,
              !.internal_meshlist = <<>>, !.internal_otherphysicslist = <<>>]

\* ChAssembly::Clear of the parent: the boundary items leave the assembly
ChAssembly_Clear(s) ==
    [s EXCEPT !.bodylist = <<>>, !.linklist = <<>>, !.meshlist = <<>>,
              !.otherphysicslist = <<>>]

\* "if (modal_variables) delete modal_variables;": the pointer keeps its
\* value; deleting an object that has been deleted is undefined, it crashes
\* or goes unnoticed
DeleteModalVariables(s, crash) ==
    IF s.modal_variables.ptr = "null" THEN s
    ELSE IF s.modal_variables.ptr = "deleted"
    THEN (IF crash THEN Throw(s, "double delete") ELSE s)
    ELSE [s EXCEPT !.modal_variables.ptr = "deleted"]

\* ChModalAssembly::Clear
Clear(s, crash) == DeleteModalVariables(RemoveAllInternal(ChAssembly_Clear(s)), crash)

\* ChModalAssembly::~ChModalAssembly
Destructor(s, crash) == DeleteModalVariables(RemoveAllInternal(s), crash)

-----------------------------------------------------------------------------
(* The assemblies of the model and the state after construction.           *)

\* the configurations: boundary and internal bodies on the x axis, all with
\* mass 1 and the same rotation k * pi, loads of stiffness 1 between them
\*   1: b1 - i1                       2: b1 - i1 - i2, rotated by pi
\*   3: b1 - i1 - b2                  4: b1, i1 with no stiffness at all
\*   5: as 2, not rotated, with a link between i1 and i2 and a link on b1
\*   6: as 1, i1 of a class whose IntStateScatter throws
\*   7: as 1, with a callback registered for the custom modal force
Configurations == 1..7

BoundaryBodies(c) ==
    CASE c = 2 -> <<NewBody("b1", 0, 1, 1)>>
      [] c = 3 -> <<NewBody("b1", 0, 0, 1), NewBody("b2", 2, 0, 1)>>
      [] OTHER -> <<NewBody("b1", 0, 0, 1)>>

InternalBodies(c) ==
    CASE c = 2 -> <<NewBody("i1", 1, 1, 1), NewBody("i2", 2, 1, 1)>>
      [] c = 5 -> <<NewBody("i1", 1, 0, 1), NewBody("i2", 2, 0, 1)>>
      [] c = 6 -> <<[NewBody("i1", 1, 0, 1) EXCEPT !.throws = TRUE]>>
      [] OTHER -> <<NewBody("i1", 1, 0, 1)>>

BoundaryLinks(c) == IF c = 5 THEN <<NewLink("lb", "b1", "ground", 1)>> ELSE <<>>

InternalLinks(c) == IF c = 5 THEN <<NewLink("li", "i1", "i2", 1)>> ELSE <<>>

InternalLoads(c) ==
    CASE c \in {1, 6, 7} -> <<NewLoad("k1", "b1", "i1", 1)>>
      [] c = 3 -> <<NewLoad("k1", "b1", "i1", 1), NewLoad("k2", "i1", "b2", 1)>>
      [] c = 4 -> <<>>
      [] OTHER -> <<NewLoad("k1", "b1", "i1", 1), NewLoad("k2", "i1", "i2", 1)>>

Z0 == MZero(0, 0)

Frame0 == [pos |-> Q(0), rot |-> QuatOf(0), pos_dt |-> Q(0), wvel |-> Q(0),
           pos_dtdt |-> Q(0), wacc |-> Q(0)]

\* ChModalAssembly::ChModalAssembly(), then the items of configuration c
\* added, SetInternalNodesUpdate(inu) and, in configuration 7,
\* RegisterCallback_CustomForceModal
Constructed(c, inu) ==
    [bodylist |-> BoundaryBodies(c), linklist |-> BoundaryLinks(c),
     meshlist |-> <<>>, otherphysicslist |-> <<>>,
     internal_bodylist |-> InternalBodies(c), internal_linklist |-> InternalLinks(c),
     internal_meshlist |-> <<>>, internal_otherphysicslist |-> InternalLoads(c),
     offset_x |-> AsmOffset + 2, offset_w |-> AsmOffset + 1, offset_L |-> AsmOffset,
     nbodies |-> 0, nlinks |-> 0, nmeshes |-> 0, nphysicsitems |-> 0,
     ncoords |-> 0, ncoords_w |-> 0, ndoc |-> 0, ndoc_w |-> 0, ndoc_w_C |-> 0,
     ndoc_w_D |-> 0, nsysvars |-> 0, nsysvars_w |-> 0, ndof |-> 0,
     n_boundary_bodies |-> 0, n_boundary_links |-> 0, n_boundary_meshes |-> 0,
     n_boundary_physicsitems |-> 0, n_boundary_coords |-> 0,
     n_boundary_coords_w |-> 0, n_boundary_doc |-> 0, n_boundary_doc_w |-> 0,
     n_boundary_doc_w_C |-> 0, n_boundary_doc_w_D |-> 0, n_boundary_sysvars |-> 0,
     n_boundary_sysvars_w |-> 0, n_boundary_dof |-> 0,
     n_internal_bodies |-> 0, n_internal_links |-> 0, n_internal_meshes |-> 0,
     n_internal_physicsitems |-> 0, n_internal_coords |-> 0,
     n_internal_coords_w |-> 0, n_internal_doc |-> 0, n_internal_doc_w |-> 0,
     n_internal_doc_w_C |-> 0, n_internal_doc_w_D |-> 0, n_internal_sysvars |-> 0,
     n_internal_sysvars_w |-> 0, n_internal_dof |-> 0,
     n_modes_coords_w |-> 0, is_modal |-> FALSE, internal_nodes_update |-> inu,
     m_custom_F_modal_callback |-> (c = 7), m_custom_F_full_callback |-> FALSE,
     modal_variables |-> [ptr |-> "null", ndof |-> 0, qb |-> <<>>, fb |-> <<>>],
     modal_Hblock |-> [K |-> Z0],
     modal_q |-> <<>>, modal_q_dt |-> <<>>, modal_q_dtdt |-> <<>>,
     custom_F_modal |-> <<>>, custom_F_full |-> <<>>,
     full_assembly_x_old |-> <<>>, modes_assembly_x0 |-> <<>>,
     modes_V |-> Z0, modes_eig |-> <<>>, modes_freq |-> <<>>,
     modes_damping_ratio |-> <<>>,
     com_x |-> Q(0), S |-> Z0, floating_frame_F |-> Frame0,
     floating_frame_F0 |-> Frame0, R_F |-> Q(1), wloc_F |-> Q(0),
     P_B1 |-> Z0, P_B2 |-> Z0, P_I1 |-> Z0, P_I2 |-> Z0, P_W |-> Z0, Y |-> Z0,
     U |-> Z0, V |-> Z0, O_B |-> Z0, O_F |-> Z0, V_acc |-> Z0, V_rmom |-> Z0,
     O_thetamom |-> Z0, V_F1 |-> Z0, V_F2 |-> Z0, V_F3 |-> Z0,
     M_red |-> Z0, K_red |-> Z0, R_red |-> Z0, Cq_red |-> Z0,
     Psi |-> Z0, Psi_S |-> Z0, Psi_D |-> Z0,
     full_M_loc |-> Z0, full_K_loc |-> Z0, full_R_loc |-> Z0, full_Cq_loc |-> Z0,
     Km_sup |-> Z0, Kg_sup |-> Z0, Rm_sup |-> Z0, M_sup |-> Z0, Ri_sup |-> Z0,
     Ki_sup |-> Z0,
     modal_M |-> Z0, modal_K |-> Z0, modal_R |-> Z0, modal_Cq |-> Z0,
     g_loc |-> <<>>, g_quad |-> <<>>,
     trace |-> NoTrace]

\* ChModalAssembly::ChModalAssembly(): an assembly without items
NewAssembly ==
    [Constructed(1, TRUE) EXCEPT
        !.bodylist = <<>>, !.linklist = <<>>, !.meshlist = <<>>, !.otherphysicslist = <<>>,
        !.internal_bodylist = <<>>, !.internal_linklist = <<>>,
        !.internal_meshlist = <<>>, !.internal_otherphysicslist = <<>>]

-----------------------------------------------------------------------------
(* Serialization.  An archive is the sequence of the named values written  *)
(* to it.  An archive of a format that keeps the names looks a value up    *)
(* under the name asked for and throws when there is none; an archive of   *)
(* a format without names gives the values back in the order written.      *)

\* marchive << CHNVP(value, name)
Write(archive, value, name) == Append(archive, [name |-> name, value |-> value])

\* marchive >> CHNVP(value, name), the pos-th read of the archive
Read(archive, pos, name, named) ==
    IF ~named THEN [found |-> TRUE, value |-> archive[pos].value]
    ELSE IF \E i \in 1..Len(archive) : archive[i].name = name
    THEN [found |-> TRUE,
          value |-> archive[CHOOSE i \in 1..Len(archive) : archive[i].name = name].value]
    ELSE [found |-> FALSE, value |-> <<>>]

\* ChAssembly::ArchiveOut of the parent: the lists of the boundary items
ChAssembly_ArchiveOut(s, archive) ==
    Write(Write(Write(Write(archive, s.bodylist, "bodies"), s.linklist, "links"),
                s.meshlist, "meshes"),
          s.otherphysicslist, "other_physics_items")

\* ChAssembly::ArchiveIn of the parent: the lists of the boundary items
ChAssembly_ArchiveIn(s, archive, named) ==
    [s EXCEPT !.bodylist = Read(archive, 1, "bodies", named).value,
              !.linklist = Read(archive, 2, "links", named).value,
              !.meshlist = Read(archive, 3, "meshes", named).value,
              !.otherphysicslist = Read(archive, 4, "other_physics_items", named).value]

\* ChModalAssembly::ArchiveOut
ArchiveOut(s) ==
    Let([a1 \in {ChAssembly_ArchiveOut(s, <<>>)} |->
    Let([a2 \in {Write(a1, s.internal_bodylist, "internal_bodies")} |->
    Let([a3 \in {Write(a2, s.internal_linklist, "internal_links")} |->
    Let([a4 \in {Write(a3, s.internal_meshlist, "internal_meshes")} |->
    Let([a5 \in {Write(a4, s.internal_otherphysicslist, "internal_other_physics_items")} |->
    Let([a6 \in {Write(a5, s.is_modal, "is_modal")} |->
    Let([a7 \in {Write(a6, s.modal_q, "modal_q")} |->
    Let([a8 \in {Write(a7, s.modal_q_dt, "modal_q_dt")} |->
    Let([a9 \in {Write(a8, s.modal_q_dtdt, "modal_q_dtdt")} |->
    Let([a10 \in {Write(a9, s.custom_F_modal, "custom_F_modal")} |->
    Let([a11 \in {Write(a10, s.custom_F_full, "custom_F_full")} |->
        Write(a11, s.internal_nodes_update, "internal_nodes_update")])])])])])])])])])])])

\* ChModalAssembly::ArchiveIn: the reads that follow the items
ArchiveIn_data(s, archive, named) ==
    [s EXCEPT !.is_modal = Read(archive, 9, "is_modal", named).value,
              !.modal_q = Read(archive, 10, "modal_q", named).value,
              !.modal_q_dt = Read(archive, 11, "modal_q_dt", named).value,
              !.modal_q_dtdt = Read(archive, 12, "modal_q_dtdt", named).value,
              !.custom_F_modal = Read(archive, 13, "custom_F_modal", named).value,
              !.custom_F_full = Read(archive, 14, "custom_F_full", named).value,
              !.internal_nodes_update =
                  Read(archive, 15, "internal_nodes_update", named).value]

\* ChModalAssembly::ArchiveIn: the items are new objects, of no system and
\* in no list, so that AddInternalBody and the like append them
ArchiveIn(s, archive, named) ==
    Let([p \in {ChAssembly_ArchiveIn(s, archive, named)} |->
    Let([tempbodies \in {Read(archive, 5, "internal_bodies", named)} |->
    Let([b \in {[p EXCEPT !.bodylist = <<>>,
                          !.internal_bodylist = @ \o tempbodies.value]} |->
    Let([templinks \in {Read(archive, 6, "internal_links", named)} |->
    Let([l \in {[b EXCEPT !.linklist = <<>>,
                          !.internal_linklist = @ \o templinks.value]} |->
    Let([tempmeshes \in {Read(archive, 7, "internal_mesh", named)} |->
    IF ~tempmeshes.found THEN Throw(l, "archive: no such name")
    ELSE
    Let([m \in {[l EXCEPT !.meshlist = <<>>,
                          !.internal_meshlist = @ \o tempmeshes.value]} |->
    Let([tempotherphysics \in {Read(archive, 8, "internal_other_physics_items", named)} |->
    Let([o \in {[m EXCEPT !.otherphysicslist = <<>>,
                          !.internal_otherphysicslist = @ \o tempotherphysics.value]} |->
        Setup(ArchiveIn_data(o, archive, named))])])])])])])])])])

\* internal_nodes_update is true after construction; configuration 1 is
\* also run after SetInternalNodesUpdate(false)
NodesUpdateChoices(c) == IF c = 1 THEN BOOLEAN ELSE {TRUE}

NoCall == [op |-> "none", res |-> "ok", in |-> <<>>, out |-> <<>>, changed |-> TRUE,
           n |-> 0]

Init ==
    /\ \E c \in Configurations : \E inu \in NodesUpdateChoices(c) :
           asm = Constructed(c, inu)
    /\ call = NoCall

-----------------------------------------------------------------------------
(* The callers: the system and its time integrator.  They call the         *)
(* integrator-facing functions after a Setup(), either with the offsets of *)
(* the assembly in the vectors of the system or, as the assembly does      *)
(* itself, with offset 0 and vectors of its own.                           *)

\* Setup() has counted the items
Ready(s) == s.ncoords_w > 0

\* the operation has left every field of the assembly as it was
Same(s, t) == [s EXCEPT !.trace = NoTrace] = [t EXCEPT !.trace = NoTrace]

\* The operations that could follow one that left the assembly as it was
\* start from the same assembly as those that follow the state before it:
\* the model follows only the latter.
Serial == call.changed /\ call.op \notin {"Clear", "~ChModalAssembly", "ArchiveIn"}

\* the model follows MaxCalls operations that change the assembly, one less
\* where the assembly has more than two bodies, and the operations called
\* before the last of them has returned
MaxCallsOf(s) ==
    IF Len(s.bodylist) + Len(s.internal_bodylist) > 2 THEN MaxCalls - 1 ELSE MaxCalls

CanChange == Serial /\ call.n < MaxCallsOf(asm)

\* an assembly that Clear() has emptied is followed to its next Clear() and
\* to its destruction only; nothing follows the destruction
CanClear ==
    /\ call.changed /\ call.op # "~ChModalAssembly"
    /\ call.n < MaxCallsOf(asm)

\* the outcomes of the delete in Clear() and in the destructor
DeleteOutcomes(s) == IF s.modal_variables.ptr = "deleted" THEN BOOLEAN ELSE {FALSE}

\* the operations that leave the assembly as it is are followed after every
\* operation but the last
CanObserve == Serial /\ call.n < MaxCalls

\* the residual of an assembly with a callback for the custom modal force is
\* read after the last operation too
CanLoadResidual == CanObserve \/ (Serial /\ asm.m_custom_F_modal_callback)

\* the record of an operation that went from s to t
Called(op, s, t, in, out) ==
    [op |-> op, res |-> IF t.trace.exc # "" THEN "exception" ELSE "ok",
     in |-> in, out |-> out, changed |-> ~Same(t, s),
     n |-> IF Same(t, s) THEN call.n ELSE call.n + 1]

\* the offsets given by the caller
Off(s, local) == [x |-> IF local THEN 0 ELSE s.offset_x,
                  w |-> IF local THEN 0 ELSE s.offset_w]

\* the vectors of the caller are long enough for the full and the reduced
\* state, with one entry of another item behind
LenX(s, local) ==
    Off(s, local).x + s.n_boundary_coords + s.n_internal_coords + s.n_modes_coords_w + 1

LenW(s, local) ==
    Off(s, local).w + s.n_boundary_coords_w + s.n_internal_coords_w
        + s.n_modes_coords_w + 1

\* what a vector holds where the assembly has not written
Fill == Q(7)

FillX(s, local) == Tup([j \in 1..LenX(s, local) |-> Fill])

FillW(s, local) == Tup([j \in 1..LenW(s, local) |-> Fill])

\* the state of the assembly as the integrator holds it
StateOf(s, local) ==
    IntStateGather(s, Off(s, local).x, FillX(s, local), Off(s, local).w, FillW(s, local))

\* position j of a position-level vector is the translation of a body that
\* the assembly maps in its present mode
IsBodyPosX(s, local, j) ==
    Let([displ \in {Off(s, local).x - s.offset_x} |->
    LET hit(list) == Let([i \in {Owner(list, displ, j, BodyDOF, FALSE)} |->
                         i # 0 /\ j - (displ + list[i].offset_x) = 1]) IN
        hit(s.bodylist) \/ (~s.is_modal /\ hit(s.internal_bodylist))])

\* position j of a velocity-level vector is the translation of such a body
IsBodyPosW(s, local, j) ==
    Let([displ \in {Off(s, local).w - s.offset_w} |->
    LET hit(list) == Let([i \in {Owner(list, displ, j, BodyDOF_w, TRUE)} |->
                         i # 0 /\ j - (displ + list[i].offset_w) = 1]) IN
        hit(s.bodylist) \/ (~s.is_modal /\ hit(s.internal_bodylist))])

\* position j of a velocity-level vector belongs to a body that the assembly
\* maps in its present mode
IsBodyW(s, local, j) ==
    Let([displ \in {Off(s, local).w - s.offset_w} |->
        \/ Owner(s.bodylist, displ, j, BodyDOF_w, TRUE) # 0
        \/ (~s.is_modal /\ Owner(s.internal_bodylist, displ, j, BodyDOF_w, TRUE) # 0)])

\* the index (1..n_modes) of position j in the modal segment, or 0
ModalIndexX(s, local, j) ==
    Let([k \in {j - (Off(s, local).x + s.n_boundary_coords)} |->
        IF s.is_modal /\ k \in 1..s.n_modes_coords_w THEN k ELSE 0])

ModalIndexW(s, local, j) ==
    Let([k \in {j - (Off(s, local).w + s.n_boundary_coords_w)} |->
        IF s.is_modal /\ k \in 1..s.n_modes_coords_w THEN k ELSE 0])

\* a state given by the integrator: the present one with every mapped body
\* translated by d and the modal amplitudes amp * (1, 2, ...)
XIn(s, local, d, amp) ==
    Let([cur \in {StateOf(s, local).x} |->
        Tup([j \in 1..LenX(s, local) |->
            IF ModalIndexX(s, local, j) # 0 THEN Q(amp * ModalIndexX(s, local, j))
            ELSE IF IsBodyPosX(s, local, j) THEN RAdd(cur[j], Q(d))
            ELSE cur[j]])])

\* a velocity-level vector given by the integrator: lead for the translation
\* of every mapped body, no rotation, amp * (base + 1, base + 2, ...) for
\* the modes
WIn(s, local, lead, amp, base) ==
    Tup([j \in 1..LenW(s, local) |->
        IF ModalIndexW(s, local, j) # 0 THEN Q(amp * (base + ModalIndexW(s, local, j)))
        ELSE IF IsBodyPosW(s, local, j) THEN Q(lead)
        ELSE IF IsBodyW(s, local, j) THEN Q(0)
        ELSE Fill])

\* the coordinates of the bodies stay within the bound of the model
Bounded(s) ==
    /\ \A i \in 1..Len(s.bodylist) : Abs(s.bodylist[i].pos[1]) <= MaxPos * s.bodylist[i].pos[2]
    /\ \A i \in 1..Len(s.internal_bodylist) :
           Abs(s.internal_bodylist[i].pos[1]) <= MaxPos * s.internal_bodylist[i].pos[2]

Fresh(s) == [s EXCEPT !.trace = NoTrace]

\* an internal item of the assembly is of a class whose IntStateScatter
\* throws
Faulty(s) ==
    \E i \in 1..Len(s.internal_bodylist) : s.internal_bodylist[i].throws

\* the eigen-solver fails on any request; the model lets it fail on the
\* request of one mode
SolverOutcomes(n_modes) == IF n_modes = 1 THEN BOOLEAN ELSE {TRUE}

\* the mode counts asked for: 1..MaxModes, and one more than the assembly
\* has coordinates
FullCoords_w(s) ==
    BodyDOF_w * (CountActive(s.bodylist, Len(s.bodylist))
                 + CountActive(s.internal_bodylist, Len(s.internal_bodylist)))

ModeRequests(s) == (1..MaxModes) \cup {FullCoords_w(s) + 1}

\* the matrices a caller gives to SwitchModalReductionON(full_M, full_K,
\* full_Cq, ...): of the size of the assembly, all zero or M = K = 1
SuppliedMatrices(s) ==
    <<[M |-> MZero(FullCoords_w(s), FullCoords_w(s)),
       K |-> MZero(FullCoords_w(s), FullCoords_w(s)),
       Cq |-> MZero(0, FullCoords_w(s))],
      [M |-> MIdentity(FullCoords_w(s), FullCoords_w(s)),
       K |-> MIdentity(FullCoords_w(s), FullCoords_w(s)),
       Cq |-> MZero(0, FullCoords_w(s))]>>

\* the system that owns the mesh given to AddInternalMesh
MeshOwners == {"null", "other"}

\* the factors (K, R, M) of the tangent build
Factors == {<<1, 1, 1>>}

\* SetFullStateWithModeOverlay sizes its vectors by ncoords: they hold the
\* coordinates of every item the assembly maps in its present mode (the
\* call is an out-of-range access otherwise)
OverlayInRange(s) ==
    s.is_modal \/ s.ncoords = s.n_boundary_coords + s.n_internal_coords

-----------------------------------------------------------------------------
(* One action for each operation of the assembly.  call records the        *)
(* operation, how it left ("ok" or "exception"), what it was given and     *)
(* what it gave back.                                                      *)

Call_Setup ==
    /\ CanChange
    /\ asm' = Setup(Fresh(asm))
    /\ call' = Called("Setup", asm, asm', <<>>, <<>>)

Call_Update ==
    /\ CanChange /\ Ready(asm)
    /\ asm' = Update(Fresh(asm), Faulty(asm))
    /\ Bounded(asm')
    /\ call' = Called("Update", asm, asm', <<>>, <<>>)

Call_IntStateGather ==
    /\ CanObserve /\ Ready(asm)
    /\ \E local \in BOOLEAN :
        LET o == Off(asm, local)
            x == FillX(asm, local)
            v == FillW(asm, local)
            g == IntStateGather(asm, o.x, x, o.w, v)
        IN  /\ asm' = [Fresh(asm) EXCEPT !.trace.internal = g.internal]
            /\ call' = Called("IntStateGather", asm, asm',
                              [off_x |-> o.x, off_v |-> o.w, x |-> x, v |-> v],
                              [x |-> g.x, v |-> g.v])

Call_IntStateScatter ==
    /\ CanChange /\ Ready(asm)
    /\ \E d \in 0..MaxShift, amp \in 0..MaxAmp :
        LET o == Off(asm, FALSE)
            x == XIn(asm, FALSE, d, amp)
            v == WIn(asm, FALSE, amp, amp, 1)
        IN  /\ asm' = IntStateScatter(Fresh(asm), o.x, x, o.w, v, Faulty(asm))
            /\ Bounded(asm')
            /\ call' = Called("IntStateScatter", asm, asm',
                              [off_x |-> o.x, off_v |-> o.w, x |-> x, v |-> v, d |-> d],
                              <<>>)

Call_IntStateGatherAcceleration ==
    /\ CanObserve /\ Ready(asm)
    /\ \E local \in BOOLEAN :
        LET o == Off(asm, local)
            a == FillW(asm, local)
            g == IntStateGatherAcceleration(asm, o.w, a)
        IN  /\ asm' = [Fresh(asm) EXCEPT !.trace.internal = g.internal]
            /\ call' = Called("IntStateGatherAcceleration", asm, asm',
                              [off_a |-> o.w, a |-> a], [a |-> g.a])

Call_IntStateScatterAcceleration ==
    /\ CanChange /\ Ready(asm)
    /\ \E amp \in 1..MaxAmp :
        LET o == Off(asm, FALSE)
            a == WIn(asm, FALSE, amp, amp, 2)
        IN  /\ asm' = IntStateScatterAcceleration(Fresh(asm), o.w, a)
            /\ call' = Called("IntStateScatterAcceleration", asm, asm',
                              [off_a |-> o.w, a |-> a], <<>>)

Call_IntStateIncrement ==
    /\ CanObserve /\ Ready(asm)
    /\ \E d \in 1..MaxShift, amp \in 1..MaxAmp :
        LET o == Off(asm, FALSE)
            x == StateOf(asm, FALSE).x
            Dv == WIn(asm, FALSE, d, amp, 0)
            r == IntStateIncrement(asm, o.x, FillX(asm, FALSE), x, o.w, Dv)
        IN  /\ asm' = [Fresh(asm) EXCEPT !.trace.internal = r.internal]
            /\ call' = Called("IntStateIncrement", asm, asm',
                              [off_x |-> o.x, off_v |-> o.w, x |-> x, Dv |-> Dv,
                               x_new |-> FillX(asm, FALSE)],
                              [x_new |-> r.x_new])

Call_IntStateGetIncrement ==
    /\ CanObserve /\ Ready(asm)
    /\ \E d \in 1..MaxShift, amp \in 1..MaxAmp :
        LET o == Off(asm, FALSE)
            x == StateOf(asm, FALSE).x
            x_new == XIn(asm, FALSE, d, amp)
            r == IntStateGetIncrement(asm, o.x, x_new, x, o.w, FillW(asm, FALSE))
        IN  /\ asm' = [Fresh(asm) EXCEPT !.trace.internal = r.internal]
            /\ call' = Called("IntStateGetIncrement", asm, asm',
                              [off_x |-> o.x, off_v |-> o.w, x |-> x, x_new |-> x_new,
                               Dv |-> FillW(asm, FALSE)],
                              [Dv |-> r.Dv])

Call_IntLoadResidual_F ==
    /\ CanLoadResidual /\ Ready(asm)
    /\ LET o == Off(asm, FALSE)
           R == FillW(asm, FALSE)
           r == IntLoadResidual_F(asm, o.w, R, 1)
       IN  /\ asm' = [Fresh(asm) EXCEPT !.trace.internal = r.internal,
                                        !.trace.exc = r.exc]
           /\ call' = Called("IntLoadResidual_F", asm, asm',
                             [off |-> o.w, R |-> R], [R |-> r.R])

Call_IntLoadResidual_Mv ==
    /\ CanObserve /\ Ready(asm)
    /\ \E amp \in 1..MaxAmp :
        LET o == Off(asm, FALSE)
            R == FillW(asm, FALSE)
            w == WIn(asm, FALSE, amp, amp, 0)
            r == IntLoadResidual_Mv(asm, o.w, R, w, 1)
        IN  /\ asm' = [Fresh(asm) EXCEPT !.trace.internal = r.internal]
            /\ call' = Called("IntLoadResidual_Mv", asm, asm',
                              [off |-> o.w, R |-> R, w |-> w], [R |-> r.R])

Call_IntToDescriptor ==
    /\ CanChange /\ Ready(asm)
    /\ \E amp \in 1..MaxAmp :
        LET o == Off(asm, FALSE)
            v == WIn(asm, FALSE, amp, amp, 1)
            R == WIn(asm, FALSE, amp, amp, 2)
        IN  /\ asm' = IntToDescriptor(Fresh(asm), o.w, v, R)
            /\ call' = Called("IntToDescriptor", asm, asm',
                              [off_v |-> o.w, v |-> v, R |-> R], <<>>)

Call_IntFromDescriptor ==
    /\ CanObserve /\ Ready(asm)
    /\ LET o == Off(asm, FALSE)
           v == FillW(asm, FALSE)
           r == IntFromDescriptor(asm, o.w, v)
       IN  /\ asm' = [Fresh(asm) EXCEPT !.trace.internal = r.internal]
           /\ call' = Called("IntFromDescriptor", asm, asm',
                             [off_v |-> o.w, v |-> v], [v |-> r.v])

Call_InjectVariables ==
    /\ CanObserve /\ Ready(asm)
    /\ LET r == InjectVariables(asm)
       IN  /\ asm' = [Fresh(asm) EXCEPT !.trace.internal = r.internal]
           /\ call' = Called("InjectVariables", asm, asm', <<>>, [vars |-> r.vars])

Call_InjectKRMmatrices ==
    /\ CanObserve /\ Ready(asm)
    /\ LET r == InjectKRMmatrices(asm)
       IN  /\ asm' = [Fresh(asm) EXCEPT !.trace.internal = r.internal]
           /\ call' = Called("InjectKRMmatrices", asm, asm', <<>>,
                             [blocks |-> r.blocks])

Call_KRMmatricesLoad ==
    /\ CanChange /\ Ready(asm)
    /\ \E f \in Factors :
        /\ asm' = KRMmatricesLoad(Fresh(asm), f[1], f[2], f[3])
        /\ call' = Called("KRMmatricesLoad", asm, asm',
                          [Kfactor |-> f[1], Rfactor |-> f[2], Mfactor |-> f[3]], <<>>)

Call_SetInternalStateWithModes ==
    /\ CanChange /\ Ready(asm)
    /\ asm' = SetInternalStateWithModes(Fresh(asm), Faulty(asm))
    /\ Bounded(asm')
    /\ call' = Called("SetInternalStateWithModes", asm, asm', <<>>, <<>>)

Call_ComputeModes ==
    /\ CanChange
    /\ \E n_modes \in ModeRequests(asm) : \E solver_ok \in SolverOutcomes(n_modes) :
        /\ asm' = ComputeModes(Fresh(asm), n_modes, solver_ok, Faulty(asm))
        /\ Bounded(asm')
        /\ call' = Called("ComputeModes", asm, asm',
                          [n_modes |-> n_modes, solver_ok |-> solver_ok,
                           ncoords_w |-> FullCoords_w(asm)],
                          <<>>)

Call_SetFullStateWithModeOverlay ==
    /\ CanChange /\ Ready(asm) /\ OverlayInRange(asm)
    /\ \E n_mode \in 0..MaxModes, amplitude \in 1..MaxAmp :
        /\ asm' = SetFullStateWithModeOverlay(Fresh(asm), n_mode, amplitude, Faulty(asm))
        /\ Bounded(asm')
        /\ call' = Called("SetFullStateWithModeOverlay", asm, asm',
                          [n_mode |-> n_mode, amplitude |-> amplitude,
                           computed |-> asm.modes_V.c],
                          <<>>)

Call_SwitchModalReductionON ==
    /\ CanChange
    /\ \E n_modes \in ModeRequests(asm) : \E solver_ok \in SolverOutcomes(n_modes) :
        /\ asm' = SwitchModalReductionON(Fresh(asm), n_modes, solver_ok, Faulty(asm))
        /\ Bounded(asm')
        /\ call' = Called("SwitchModalReductionON", asm, asm',
                          [n_modes |-> n_modes, solver_ok |-> solver_ok, given |-> FALSE,
                           supplied |-> 0,
                           ncoords_w |-> FullCoords_w(asm), was_modal |-> asm.is_modal,
                           had_modes |-> asm.modes_V.c > 0],
                          <<>>)

Call_SwitchModalReductionON_matrices ==
    /\ CanChange
    /\ \E n_modes \in 1..MaxModes : \E solver_ok \in {TRUE} :
       \E k \in 1..Len(SuppliedMatrices(asm)) :
        /\ asm' = SwitchModalReductionON_matrices(Fresh(asm), SuppliedMatrices(asm)[k].M,
                                                  SuppliedMatrices(asm)[k].K,
                                                  SuppliedMatrices(asm)[k].Cq,
                                                  n_modes, solver_ok, Faulty(asm))
        /\ Bounded(asm')
        /\ call' = Called("SwitchModalReductionON", asm, asm',
                          [n_modes |-> n_modes, solver_ok |-> solver_ok, given |-> TRUE,
                           supplied |-> k,
                           ncoords_w |-> FullCoords_w(asm), was_modal |-> asm.is_modal,
                           had_modes |-> asm.modes_V.c > 0],
                          <<>>)

Call_AddInternalMesh ==
    /\ CanChange
    /\ \E system \in MeshOwners :
        /\ asm' = AddInternalMesh(Fresh(asm), OwnedMesh("m1", system))
        /\ call' = Called("AddInternalMesh", asm, asm',
                          [id |-> "m1", system |-> system], <<>>)

Call_RemoveInternalMesh ==
    /\ CanChange
    /\ asm' = RemoveInternalMesh(Fresh(asm), "m1")
    /\ call' = Called("RemoveInternalMesh", asm, asm', [id |-> "m1"], <<>>)

Call_Clear ==
    /\ CanClear
    /\ \E crash \in DeleteOutcomes(asm) :
        /\ asm' = Clear(Fresh(asm), crash)
        /\ call' = Called("Clear", asm, asm', [modal_variables |-> asm.modal_variables.ptr],
                          <<>>)

Call_Destructor ==
    /\ CanClear
    /\ \E crash \in DeleteOutcomes(asm) :
        /\ asm' = Destructor(Fresh(asm), crash)
        /\ call' = [Called("~ChModalAssembly", asm, asm',
                           [modal_variables |-> asm.modal_variables.ptr], <<>>)
                        EXCEPT !.changed = TRUE, !.n = call.n + 1]

\* the archive formats: with and without the names of the values
ArchiveFormats == BOOLEAN

Call_ArchiveIn ==
    /\ CanChange
    /\ \E named \in ArchiveFormats :
        /\ asm' = ArchiveIn(NewAssembly, ArchiveOut(asm), named)
        /\ call' = [Called("ArchiveIn", asm, asm', [named |-> named, written |-> asm], <<>>)
                        EXCEPT !.changed = TRUE, !.n = call.n + 1]

Next ==
    \/ Call_Setup
    \/ Call_Update
    \/ Call_IntStateGather
    \/ Call_IntStateScatter
    \/ Call_IntStateGatherAcceleration
    \/ Call_IntStateScatterAcceleration
    \/ Call_IntStateIncrement
    \/ Call_IntStateGetIncrement
    \/ Call_IntLoadResidual_F
    \/ Call_IntLoadResidual_Mv
    \/ Call_IntToDescriptor
    \/ Call_IntFromDescriptor
    \/ Call_InjectVariables
    \/ Call_InjectKRMmatrices
    \/ Call_KRMmatricesLoad
    \/ Call_SetInternalStateWithModes
    \/ Call_ComputeModes
    \/ Call_SetFullStateWithModeOverlay
    \/ Call_SwitchModalReductionON
    \/ Call_SwitchModalReductionON_matrices
    \/ Call_AddInternalMesh
    \/ Call_RemoveInternalMesh
    \/ Call_Clear
    \/ Call_Destructor
    \/ Call_ArchiveIn

Spec == Init /\ [][Next]_vars

-----------------------------------------------------------------------------
(* The properties of the assembly.                                         *)

\* DoModalReduction has built the basis of the reduced assembly
Reduced(s) == s.Psi.r > 0

\* SwitchModalReductionON has returned from a reduction it ran
Switched ==
    /\ call.op = "SwitchModalReductionON" /\ call.res = "ok"
    /\ ~call.in.was_modal

\* C1: once SwitchModalReductionON has put the assembly in modal mode, every
\* operation returns with the assembly still in modal mode.
C1_ModalModeIsNeverLeft == [][asm.is_modal => asm'.is_modal]_vars

\* C2: after Setup() the totals are those of the mode the assembly is in: the
\* boundary and internal counts in full mode, the boundary counts and the
\* number of modes in modal mode.
C2_CoordinateCounts ==
    Ready(asm) =>
        IF asm.is_modal
        THEN /\ asm.ncoords_w = asm.n_boundary_coords_w + asm.n_modes_coords_w
             /\ asm.ndoc_w = asm.n_boundary_doc_w
        ELSE /\ asm.ncoords_w = asm.n_boundary_coords_w + asm.n_internal_coords_w
             /\ asm.ncoords = asm.n_boundary_coords + asm.n_internal_coords
             /\ asm.ndoc_w = asm.n_boundary_doc_w + asm.n_internal_doc_w

\* C3: after the reduction every operation leaves the number of modes, the
\* basis and the reduced matrices as they are, and a further
\* SwitchModalReductionON runs no eigen-solve and no factorization.
C3_ReductionIsDoneOnce ==
    [][Reduced(asm) =>
        /\ asm'.n_modes_coords_w = asm.n_modes_coords_w
        /\ asm'.Psi_S = asm.Psi_S /\ asm'.Psi_D = asm.Psi_D /\ asm'.Psi = asm.Psi
        /\ asm'.M_red = asm.M_red /\ asm'.K_red = asm.K_red
        /\ asm'.Cq_red = asm.Cq_red
        /\ (call'.op = "SwitchModalReductionON" =>
               /\ asm'.trace.eigen_solves = 0
               /\ asm'.trace.factorizations = 0)]_vars

\* C4: when SwitchModalReductionON returns from a reduction, the mode set is
\* empty: modes_V has no rows and no columns, and modes_eig, modes_freq and
\* modes_damping_ratio have no entries.
C4_ModesClearedByReduction ==
    Switched =>
        /\ asm.modes_V.r = 0 /\ asm.modes_V.c = 0
        /\ asm.modes_eig = <<>> /\ asm.modes_freq = <<>>
        /\ asm.modes_damping_ratio = <<>>

\* a reduction has returned, of an assembly whose modes had been computed
\* by ComputeModes before
C4_Witness ==
    /\ Switched /\ asm.is_modal /\ Reduced(asm)
    /\ call.in.had_modes

\* the entries of a vector behind the boundary coordinates that hold the
\* modal amplitudes (speeds, accelerations)
ModalX(s, off_x, k) == off_x + s.n_boundary_coords + k

ModalW(s, off_w, k) == off_w + s.n_boundary_coords_w + k

\* C5: in modal mode IntStateGather after IntStateScatter, with the same
\* offsets, gives back the modal entries of x and v that were scattered, and
\* IntStateGatherAcceleration after IntStateScatterAcceleration the modal
\* entries of a; they are modal_q, modal_q_dt and modal_q_dtdt.
C5_ModalRoundTrip ==
    [][/\ (/\ call.op = "IntStateScatter" /\ call.res = "ok" /\ asm.is_modal
           /\ call'.op = "IntStateGather"
           /\ call'.in.off_x = call.in.off_x /\ call'.in.off_v = call.in.off_v)
          => \A k \in 1..asm.n_modes_coords_w :
                /\ call'.out.x[ModalX(asm, call.in.off_x, k)]
                       = call.in.x[ModalX(asm, call.in.off_x, k)]
                /\ call'.out.v[ModalW(asm, call.in.off_v, k)]
                       = call.in.v[ModalW(asm, call.in.off_v, k)]
                /\ call'.out.x[ModalX(asm, call.in.off_x, k)] = asm.modal_q[k]
                /\ call'.out.v[ModalW(asm, call.in.off_v, k)] = asm.modal_q_dt[k]
       /\ (/\ call.op = "IntStateScatterAcceleration" /\ call.res = "ok"
           /\ asm.is_modal
           /\ call'.op = "IntStateGatherAcceleration"
           /\ call'.in.off_a = call.in.off_a)
          => \A k \in 1..asm.n_modes_coords_w :
                /\ call'.out.a[ModalW(asm, call.in.off_a, k)]
                       = call.in.a[ModalW(asm, call.in.off_a, k)]
                /\ call'.out.a[ModalW(asm, call.in.off_a, k)] = asm.modal_q_dtdt[k]
      ]_vars

\* a state gathered in modal mode, with the amplitude and the speed that
\* IntStateScatter has given to the first mode
C5_Witness ==
    /\ call.op = "IntStateGather" /\ asm.is_modal /\ asm.n_modes_coords_w > 0
    /\ call.in.off_x = asm.offset_x
    /\ asm.modal_q[1] = Q(MaxAmp) /\ asm.modal_q_dt[1] = Q(2 * MaxAmp)
    /\ call.out.x[ModalX(asm, call.in.off_x, 1)] = Q(MaxAmp)

\* the operations the time integrator and the system descriptor call
IntegratorFacing ==
    {"IntStateGather", "IntStateGatherAcceleration", "IntStateScatterAcceleration",
     "IntStateIncrement", "IntStateGetIncrement", "IntLoadResidual_F",
     "IntLoadResidual_Mv", "IntToDescriptor", "IntFromDescriptor",
     "InjectVariables", "InjectKRMmatrices"}

\* out is in but for the n entries behind lo
SameOutside(in, out, lo, n) ==
    /\ Len(out) = Len(in)
    /\ \A j \in 1..Len(in) : (j <= lo \/ j > lo + n) => out[j] = in[j]

\* the ids of the internal items
InternalIds(s) ==
    {s.internal_bodylist[i].id : i \in 1..Len(s.internal_bodylist)}
        \cup {s.internal_linklist[i].id : i \in 1..Len(s.internal_linklist)}
        \cup {s.internal_otherphysicslist[i].id :
                  i \in 1..Len(s.internal_otherphysicslist)}

\* what the operation recorded in call has written lies in the entries of
\* the boundary items and the modes
WithinReduced(s, c) ==
    LET nx == s.n_boundary_coords + s.n_modes_coords_w
        nw == s.n_boundary_coords_w + s.n_modes_coords_w
    IN  CASE c.op = "IntStateGather" ->
                /\ SameOutside(c.in.x, c.out.x, c.in.off_x, nx)
                /\ SameOutside(c.in.v, c.out.v, c.in.off_v, nw)
          [] c.op = "IntStateGatherAcceleration" ->
                SameOutside(c.in.a, c.out.a, c.in.off_a, nw)
          [] c.op = "IntStateIncrement" ->
                SameOutside(c.in.x_new, c.out.x_new, c.in.off_x, nx)
          [] c.op = "IntStateGetIncrement" ->
                SameOutside(c.in.Dv, c.out.Dv, c.in.off_v, nw)
          [] c.op \in {"IntLoadResidual_F", "IntLoadResidual_Mv"} ->
                SameOutside(c.in.R, c.out.R, c.in.off, nw)
          [] c.op = "IntFromDescriptor" ->
                SameOutside(c.in.v, c.out.v, c.in.off_v, nw)
          [] c.op = "InjectVariables" ->
                /\ Len(c.out.vars) = Len(s.bodylist) + 1
                /\ \A k \in 1..Len(c.out.vars) : c.out.vars[k] \notin InternalIds(s)
          [] c.op = "InjectKRMmatrices" ->
                \A k \in 1..Len(c.out.blocks) : c.out.blocks[k] \notin InternalIds(s)
          [] OTHER -> TRUE

\* the operation has called no function of an internal item and has left
\* the internal items as they were
InternalUntouched ==
    /\ asm'.trace.internal = {}
    /\ asm'.internal_bodylist = asm.internal_bodylist
    /\ asm'.internal_linklist = asm.internal_linklist
    /\ asm'.internal_meshlist = asm.internal_meshlist
    /\ asm'.internal_otherphysicslist = asm.internal_otherphysicslist

C7_RigidTranslation ==
    [][(/\ Switched /\ asm.is_modal /\ asm.internal_nodes_update
        /\ call'.op = "IntStateScatter" /\ call'.res = "ok"
        /\ VIsZero(asm'.modal_q))
       => \A i \in 1..Len(asm.internal_bodylist) :
              asm'.internal_bodylist[i].pos
                  = RAdd(asm.internal_bodylist[i].pos, Q(call'.in.d))
      ]_vars

\* the matrices that the tangent build writes
Tangent(s) ==
    [modal_M |-> s.modal_M, modal_K |-> s.modal_K, modal_R |-> s.modal_R,
     modal_Cq |-> s.modal_Cq, g_quad |-> s.g_quad, modal_Hblock |-> s.modal_Hblock]

\* what the tangent build is to leave alone
BesideTangent(s) ==
    [modal_q |-> s.modal_q, modal_q_dt |-> s.modal_q_dt,
     modal_q_dtdt |-> s.modal_q_dtdt,
     floating_frame_F |-> s.floating_frame_F, S |-> s.S, Psi |-> s.Psi,
     M_red |-> s.M_red, K_red |-> s.K_red, R_red |-> s.R_red, Cq_red |-> s.Cq_red,
     n_boundary_coords_w |-> s.n_boundary_coords_w,
     n_internal_coords_w |-> s.n_internal_coords_w,
     n_modes_coords_w |-> s.n_modes_coords_w,
     ncoords_w |-> s.ncoords_w, is_modal |-> s.is_modal,
     bodylist |-> s.bodylist, internal_bodylist |-> s.internal_bodylist]

\* C8: in modal mode KRMmatricesLoad called again, with the same factors and
\* the state as it is, gives the matrices it gave the first time, and it
\* changes nothing beside the matrices it builds.
C8_TangentBuildIsIdempotent ==
    [][(asm.is_modal /\ call'.op = "KRMmatricesLoad")
       => /\ BesideTangent(asm') = BesideTangent(asm)
          /\ Tangent(KRMmatricesLoad(asm', call'.in.Kfactor, call'.in.Rfactor,
                                      call'.in.Mfactor)) = Tangent(asm')
      ]_vars

\* the tangent matrices have been built in modal mode, after the boundary
\* has moved, and the block of the descriptor is not zero
C8_Witness ==
    /\ call.op = "KRMmatricesLoad" /\ asm.is_modal /\ call.res = "ok"
    /\ \E i \in 1..asm.modal_Hblock.K.r : ~VIsZero(asm.modal_Hblock.K.a[i])
    /\ \E i \in 1..Len(asm.bodylist) : asm.bodylist[i].pos # Q(0)

\* C9: SetFullStateWithModeOverlay of a mode index that is not below the
\* number of computed modes leaves with an exception, and the items are where
\* the Update() it runs before leaving puts them: no mode shape is applied.
C9_ModeIndexBeyondComputed ==
    [][(/\ call'.op = "SetFullStateWithModeOverlay"
        /\ call'.in.n_mode >= call'.in.computed)
       => /\ call'.res = "exception"
          /\ asm'.bodylist = Update(Fresh(asm), Faulty(asm)).bodylist
          /\ asm'.internal_bodylist = Update(Fresh(asm), Faulty(asm)).internal_bodylist
      ]_vars

\* the overlay of the mode behind the last computed one has been refused
C9_Witness ==
    /\ call.op = "SetFullStateWithModeOverlay" /\ call.res = "exception"
    /\ asm.trace.exc = "mode beyond computed"
    /\ call.in.computed > 0 /\ call.in.n_mode = call.in.computed

\* C10: a mode computation or a SwitchModalReductionON of an assembly in full
\* mode that is asked for more modes than the assembly has boundary and
\* internal velocity coordinates ends with an error.
C10_TooManyModesIsAnError ==
    [][(/\ ~asm.is_modal
        /\ call'.op \in {"SwitchModalReductionON", "ComputeModes"}
        /\ call'.in.n_modes > call'.in.ncoords_w)
       => call'.res = "exception"
      ]_vars

\* C11: a SwitchModalReductionON that factorizes a singular K_IIc ends with
\* an error, and the basis and the reduced matrices are not built from what
\* the solver returned.
C11_SingularBlockIsAnError ==
    [][(/\ call'.op = "SwitchModalReductionON" /\ ~call'.in.was_modal
        /\ asm'.trace.factorizations > 0
        /\ Rank(K_IIc_loc_of(asm')) < K_IIc_loc_of(asm').r)
       => /\ call'.res = "exception"
          /\ asm'.Psi = asm.Psi /\ asm'.Psi_S = asm.Psi_S /\ asm'.Psi_D = asm.Psi_D
          /\ asm'.M_red = asm.M_red /\ asm'.K_red = asm.K_red
      ]_vars

C13_NoItemChangeInModalMode ==
    [][(/\ asm.is_modal
        /\ call'.op \in {"AddInternalMesh", "RemoveInternalMesh"})
       => /\ call'.res = "exception"
          /\ asm'.internal_meshlist = asm.internal_meshlist
          /\ asm'.internal_bodylist = asm.internal_bodylist
          /\ asm'.bodylist = asm.bodylist
          /\ asm'.n_boundary_coords_w = asm.n_boundary_coords_w
      ]_vars

\* the internal items that Setup() counts, in the order of its loops, each
\* with its offsets, its speeds (dof_w) and its constraint rows (doc)
CountedInternalItems(s) ==
    Tup([i \in 1..Len(s.internal_bodylist) |->
            [id |-> s.internal_bodylist[i].id, counted |-> IsActive(s.internal_bodylist[i]),
             x |-> s.internal_bodylist[i].offset_x, w |-> s.internal_bodylist[i].offset_w,
             L |-> s.internal_bodylist[i].offset_L, dof_w |-> BodyDOF_w, doc |-> 0]])
    \o Tup([i \in 1..Len(s.internal_linklist) |->
            [id |-> s.internal_linklist[i].id, counted |-> s.internal_linklist[i].active,
             x |-> s.internal_linklist[i].offset_x, w |-> s.internal_linklist[i].offset_w,
             L |-> s.internal_linklist[i].offset_L, dof_w |-> 0,
             doc |-> s.internal_linklist[i].doc]])
    \o Tup([i \in 1..Len(s.internal_meshlist) |->
            [id |-> s.internal_meshlist[i].id, counted |-> TRUE,
             x |-> s.internal_meshlist[i].offset_x, w |-> s.internal_meshlist[i].offset_w,
             L |-> s.internal_meshlist[i].offset_L, dof_w |-> 0, doc |-> 0]])
    \o Tup([i \in 1..Len(s.internal_otherphysicslist) |->
            [id |-> s.internal_otherphysicslist[i].id, counted |-> TRUE,
             x |-> s.internal_otherphysicslist[i].offset_x,
             w |-> s.internal_otherphysicslist[i].offset_w,
             L |-> s.internal_otherphysicslist[i].offset_L, dof_w |-> 0, doc |-> 0]])

\* every counted internal item lies behind the boundary in the three vectors
BehindBoundary(s) ==
    \A i \in 1..Len(CountedInternalItems(s)) :
        CountedInternalItems(s)[i].counted =>
            /\ CountedInternalItems(s)[i].x >= s.offset_x + s.n_boundary_coords
            /\ CountedInternalItems(s)[i].w >= s.offset_w + s.n_boundary_coords_w
            /\ CountedInternalItems(s)[i].L >= s.offset_L + s.n_boundary_doc_w

\* each of the n_internal_coords_w speeds behind the boundary is in the
\* range [offset_w, offset_w + dof_w) of exactly one counted internal item
SpeedsCovered(s) ==
    /\ \A k \in 0..(s.n_internal_coords_w - 1) :
          Cardinality({i \in 1..Len(CountedInternalItems(s)) :
              /\ CountedInternalItems(s)[i].counted
              /\ CountedInternalItems(s)[i].w <= s.offset_w + s.n_boundary_coords_w + k
              /\ s.offset_w + s.n_boundary_coords_w + k
                    < CountedInternalItems(s)[i].w + CountedInternalItems(s)[i].dof_w}) = 1
    /\ \A i \in 1..Len(CountedInternalItems(s)) :
          CountedInternalItems(s)[i].counted =>
              CountedInternalItems(s)[i].w + CountedInternalItems(s)[i].dof_w
                  <= s.offset_w + s.n_boundary_coords_w + s.n_internal_coords_w

\* no two counted internal items have the same offset in any of the vectors
OffsetsAllDistinct(s) ==
    \A i, j \in 1..Len(CountedInternalItems(s)) :
        (i < j /\ CountedInternalItems(s)[i].counted /\ CountedInternalItems(s)[j].counted)
        => /\ CountedInternalItems(s)[i].x # CountedInternalItems(s)[j].x
           /\ CountedInternalItems(s)[i].w # CountedInternalItems(s)[j].w
           /\ CountedInternalItems(s)[i].L # CountedInternalItems(s)[j].L

\* C14 as stated: after Setup() in full mode the internal items lie behind
\* the boundary, no two of them have the same offset in the position, speed
\* or constraint vector, and their speed ranges cover the internal speeds.
C14_UniqueInternalOffsets ==
    (call.op = "Setup" /\ call.res = "ok" /\ ~asm.is_modal)
    => BehindBoundary(asm) /\ OffsetsAllDistinct(asm) /\ SpeedsCovered(asm)

\* C14, amended: after Setup() in full mode the counted internal items lie
\* behind the boundary in the three vectors and the speed ranges of those
\* that have speeds are pairwise disjoint and cover the n_internal_coords_w
\* speeds behind the boundary; items without speeds or without constraint
\* rows share their offset with the item counted next.
C14_InternalRangesPartition ==
    (call.op = "Setup" /\ call.res = "ok" /\ ~asm.is_modal)
    => BehindBoundary(asm) /\ SpeedsCovered(asm)

\* Setup() has counted two internal bodies and an internal link in full mode
C14_Witness ==
    /\ call.op = "Setup" /\ call.res = "ok" /\ ~asm.is_modal
    /\ asm.n_internal_bodies = 2 /\ asm.n_internal_links = 1

\* C15: a Setup() of an assembly in modal mode calls Setup() on no internal
\* item and gives no internal item an offset.
C15_SetupSkipsInternalItems ==
    [][(asm.is_modal /\ call'.op = "Setup")
       => /\ "Setup" \notin asm'.trace.internal
          /\ asm'.internal_bodylist = asm.internal_bodylist
          /\ asm'.internal_linklist = asm.internal_linklist
          /\ asm'.internal_meshlist = asm.internal_meshlist
          /\ asm'.internal_otherphysicslist = asm.internal_otherphysicslist
      ]_vars

\* C16: an AddInternalMesh of a mesh that a system owns already ends with an
\* assertion, and the mesh is neither put in the internal list nor given the
\* system of the assembly.
C16_OwnedItemIsRefused ==
    [][(call'.op = "AddInternalMesh" /\ call'.in.system # "null")
       => /\ call'.res = "exception"
          /\ asm'.internal_meshlist = asm.internal_meshlist
      ]_vars

\* C17: after a reduction R_red is what the damping model returns for
\* M_red, K_red and Psi.
C17_ReducedDampingIsTheModels ==
    (Switched /\ asm.trace.factorizations > 0)
    => asm.R_red = DampingModel_ComputeR(asm.M_red, asm.K_red, asm.Psi)

ReductionSteps ==
    <<"assembly", "frame", "localization", "eigen-solve", "basis", "reduced">>

\* p is the first Len(p) entries of q
IsPrefix(p, q) == Len(p) <= Len(q) /\ \A i \in 1..Len(p) : p[i] = q[i]

\* C19: a SwitchModalReductionON of an assembly in full mode that returns has
\* run the steps of the reduction in their order, none left out (the full
\* matrices are assembled before the call where the caller gives them), one
\* that ends with an error has run the first of them in that order, and no
\* assembly is in modal mode without the basis Psi.
C19_ReductionStepsInOrder ==
    /\ (call.op = "SwitchModalReductionON" /\ ~call.in.was_modal)
       => IF call.res = "ok"
          THEN asm.trace.steps
                 = (IF call.in.given THEN Tail(ReductionSteps) ELSE ReductionSteps)
          ELSE IsPrefix(asm.trace.steps,
                        IF call.in.given THEN Tail(ReductionSteps) ELSE ReductionSteps)
    /\ asm.is_modal => Reduced(asm)

\* a reduction that assembled the full matrices itself has returned
C19_Witness ==
    /\ Switched /\ ~call.in.given /\ asm.is_modal /\ Reduced(asm)
    /\ asm.trace.steps = ReductionSteps

\* C20: on every way out of SetInternalStateWithModes, with an exception of
\* an internal item too, is_modal is what it was when the function was
\* entered.
C20_FlagIsRestored ==
    [][call'.op = "SetInternalStateWithModes" => asm'.is_modal = asm.is_modal]_vars

\* the operation that has returned has reconstructed the internal items at
\* the present reduced state: full_assembly_x_old is the full state of that
\* reconstruction (of the switch, where modal_q is zero) and modal_q its
\* modal amplitudes
JustReconstructed ==
    /\ asm.is_modal /\ asm.internal_nodes_update /\ call.res = "ok"
    /\ \/ Switched
       \/ call.op \in {"IntStateScatter", "Update", "SetInternalStateWithModes"}

\* the full state that a reconstruction in t gives when the stored state is
\* that of s, the boundary and the modal increment both taken from the
\* state stored in s: x_old + [dx_boundary; P_I2 (Psi_S P_B2' dx_boundary +
\* Psi_D dq)]
ReconstructionFrom(s, t) ==
    Let([nbw \in {s.n_boundary_coords_w} |->
    Let([g \in {IntStateGather(t, 0, VZero(s.n_boundary_coords + s.n_modes_coords_w),
                               0, VZero(nbw + s.n_modes_coords_w))} |->
    Let([x0_mod \in {segment(s.full_assembly_x_old, 0, s.n_boundary_coords) \o s.modal_q} |->
    Let([Dx_reduced \in {IntStateGetIncrement(t, 0, g.x, x0_mod, 0,
                                              VZero(nbw + s.n_modes_coords_w)).Dv} |->
    Let([Dx \in {segment(Dx_reduced, 0, nbw)
                 \o VAdd(MVec(MMul3(s.P_I2, s.Psi_S, MT(s.P_B2)), segment(Dx_reduced, 0, nbw)),
                         MVec(MMul(s.P_I2, s.Psi_D),
                              segment(Dx_reduced, nbw, s.n_modes_coords_w)))} |->
        IntStateIncrement([s EXCEPT !.is_modal = FALSE], 0,
                          VZero(s.n_boundary_coords + s.n_internal_coords),
                          s.full_assembly_x_old, 0, Dx).x_new])])])])])

\* C21: the reconstruction run by an IntStateScatter that follows a
\* reconstruction displaces the internal items by P_I2 (Psi_S P_B2'
\* dx_boundary + Psi_D dq), dx_boundary and dq being the increments of the
\* boundary and of the modal amplitudes since the state that the earlier
\* reconstruction stored.
C21_ReconstructionFromIncrements ==
    [][(/\ JustReconstructed
        /\ call'.op = "IntStateScatter" /\ call'.res = "ok")
       => asm'.full_assembly_x_old = ReconstructionFrom(asm, asm')
      ]_vars

\* C22: a SetInternalStateWithModes that follows a reconstruction at the
\* same reduced state leaves the internal items and full_assembly_x_old as
\* they are.
C22_ReconstructionIsIdempotent ==
    [][(/\ JustReconstructed
        /\ call'.op = "SetInternalStateWithModes" /\ call'.res = "ok")
       => /\ asm'.internal_bodylist = asm.internal_bodylist
          /\ asm'.full_assembly_x_old = asm.full_assembly_x_old
      ]_vars

\* the diagonal of the operator P, from row first + 1 on, holds for each of
\* the nodes the rotation R on the translation and 1 on the rotation
NodeBlocks(P, first, nodes, R) ==
    \A node \in 0..(nodes - 1) :
        /\ P.a[first + BodyDOF_w * node + 1][first + BodyDOF_w * node + 1] = R
        /\ P.a[first + BodyDOF_w * node + 2][first + BodyDOF_w * node + 2] = Q(1)

\* the rotation operators are those of the frame the assembly is in
OperatorsBuilt ==
    /\ asm.is_modal /\ call.res = "ok"
    /\ Switched \/ call.op = "Update"

\* C23: in the rotation operators P_BI, P_B2, P_I2 and the boundary block of
\* P_W the translational block of every node, boundary or internal, odd or
\* even, is the rotation R_F of the floating frame and the rotational block
\* is the identity.
C23_EveryNodeIsRotated ==
    OperatorsBuilt =>
        /\ NodeBlocks(asm.P_B2, 0, asm.n_boundary_coords_w \div BodyDOF_w, asm.R_F)
        /\ NodeBlocks(asm.P_W, 0, asm.n_boundary_coords_w \div BodyDOF_w, asm.R_F)
        /\ NodeBlocks(asm.P_I2, 0, asm.n_internal_coords_w \div BodyDOF_w, asm.R_F)
        /\ NodeBlocks(P_BI_of(asm), 0,
                      (asm.n_boundary_coords_w + asm.n_internal_coords_w) \div BodyDOF_w,
                      asm.R_F)

\* Update() has re-estimated the floating frame of the reduced assembly
FrameReestimated ==
    /\ call.op = "Update" /\ call.res = "ok" /\ asm.is_modal

\* C24: at each Update() in modal mode the selection matrix S is that of the
\* boundary positions and the mass center of the same update.
C24_SelectionMatrixIsCurrent ==
    FrameReestimated => asm.S = CpmputeSelectionMatrix(asm).S

\* the solves of the reduction that SwitchModalReductionON has just run
SolvesOf(modes) == {sv \in asm.trace.solves : sv.modes = modes}

\* C25: with or without internal constraints, each right-hand side of the
\* static and dynamic solves of DoModalReduction has
\* n_internal_coords_w + n_internal_doc_w entries, the dimension of K_IIc;
\* without internal constraints K_IIc is K_II; the first n_internal_coords_w
\* entries of each solution are the column of Psi_S and Psi_D.
C25_RhsHasTheSizeOfK_IIc ==
    (Switched /\ asm.is_modal /\ Reduced(asm)) =>
        LET ni == asm.n_internal_coords_w
            nd == asm.n_internal_doc_w
            K_IIc == K_IIc_loc_of(asm)
        IN  /\ K_IIc.r = ni + nd /\ K_IIc.c = ni + nd
            /\ \A sv \in asm.trace.solves : sv.rhs = ni + nd /\ sv.dim = ni + nd
            /\ \A i \in 1..asm.n_boundary_coords_w :
                   /\ Len(StaticRhs(asm, i - 1)) = ni + nd
                   /\ MCol(asm.Psi_S, i)
                        = VNeg(head(SolveQR(K_IIc, StaticRhs(asm, i - 1)), ni))
            /\ nd = 0 =>
                   K_IIc = block(asm.full_K_loc, asm.n_boundary_coords_w,
                                 asm.n_boundary_coords_w, ni, ni)
            /\ asm.Psi_S.r = ni /\ Len(asm.Psi_S.a) = ni
            /\ asm.Psi_D.r = ni /\ Len(asm.Psi_D.a) = ni

\* a reduction of an assembly without internal constraints has run its
\* static and dynamic solves
C25_Witness ==
    /\ Switched /\ asm.is_modal /\ Reduced(asm)
    /\ asm.n_internal_doc_w = 0
    /\ SolvesOf("static") # {} /\ SolvesOf("dynamic") # {}

\* the assembly of configuration 1 with internal_nodes_update off has been
\* reduced to one mode and has then been given a state by IntStateScatter
ScatteredWithoutNodesUpdate ==
    /\ call.op = "IntStateScatter" /\ call.res = "ok" /\ call.n = 2 /\ call.changed
    /\ asm.is_modal /\ ~asm.internal_nodes_update /\ asm.n_modes_coords_w = 1

\* the assembly that differs from asm in internal_nodes_update only, after
\* the same SwitchModalReductionON and the same IntStateScatter
NodesUpdateTwin ==
    IntStateScatter(
        Fresh(SwitchModalReductionON(Fresh(Constructed(1, ~asm.internal_nodes_update)),
                                     asm.n_modes_coords_w, TRUE, FALSE)),
        call.in.off_x, call.in.x, call.in.off_v, call.in.v, FALSE)

\* C26: two assemblies in modal mode that differ only in
\* internal_nodes_update and go through the same scatter calls give the same
\* Dx and v in GetStateIncrement and the same force in IntLoadResidual_F.
C26_NodesUpdateIsDisplayOnly ==
    ScatteredWithoutNodesUpdate =>
        LET twin == NodesUpdateTwin
            R == FillW(asm, FALSE)
        IN  /\ twin.is_modal /\ twin.internal_nodes_update
            /\ GetStateIncrement(asm).Dx = GetStateIncrement(twin).Dx
            /\ GetStateIncrement(asm).v = GetStateIncrement(twin).v
            /\ IntLoadResidual_F(asm, asm.offset_w, R, 1).R
                 = IntLoadResidual_F(twin, twin.offset_w, R, 1).R

\* IntLoadResidual_F has added the custom modal force to the residual
CustomForceAdded ==
    /\ call.op = "IntLoadResidual_F"
    /\ asm.is_modal /\ ~VIsZero(asm.custom_F_modal)

\* C27: in modal mode, whenever IntLoadResidual_F adds custom_F_modal to the
\* residual, custom_F_modal has n_modes_coords_w entries.
C27_CustomForceHasModalSize ==
    CustomForceAdded => Len(asm.custom_F_modal) = asm.n_modes_coords_w

\* C28: modal_variables is null or points to a live object after every
\* operation on a living assembly, and neither Clear() nor the destructor
\* deletes an object that an earlier operation has deleted.
C28_ModalVariablesReleasedOnce ==
    /\ call.op # "~ChModalAssembly" => asm.modal_variables.ptr \in {"null", "live"}
    /\ call.op \in {"Clear", "~ChModalAssembly"} => call.in.modal_variables # "deleted"

\* C29: an assembly read back from the archive it was written to has its
\* internal items, the boundary items loaded by the parent class, is_modal,
\* the modal state, the custom forces and internal_nodes_update as written.
C29_ArchiveRoundTrip ==
    call.op = "ArchiveIn" =>
        LET w == call.in.written
        IN  /\ call.res = "ok"
            /\ Ids(asm.internal_bodylist) = Ids(w.internal_bodylist)
            /\ Ids(asm.internal_linklist) = Ids(w.internal_linklist)
            /\ Ids(asm.internal_meshlist) = Ids(w.internal_meshlist)
            /\ Ids(asm.internal_otherphysicslist) = Ids(w.internal_otherphysicslist)
            /\ Ids(asm.bodylist) = Ids(w.bodylist)
            /\ Ids(asm.linklist) = Ids(w.linklist)
            /\ Ids(asm.meshlist) = Ids(w.meshlist)
            /\ Ids(asm.otherphysicslist) = Ids(w.otherphysicslist)
            /\ asm.is_modal = w.is_modal
            /\ asm.modal_q = w.modal_q
            /\ asm.modal_q_dt = w.modal_q_dt
            /\ asm.modal_q_dtdt = w.modal_q_dtdt
            /\ asm.custom_F_modal = w.custom_F_modal
            /\ asm.custom_F_full = w.custom_F_full
            /\ asm.internal_nodes_update = w.internal_nodes_update

\* the reduction that SwitchModalReductionON(full_M, full_K, full_Cq, ...)
\* runs on s when it is given the k-th choice of matrices
ReductionWith(s, k, n_modes, solver_ok) ==
    SwitchModalReductionON_matrices(Fresh(s), SuppliedMatrices(s)[k].M,
                                    SuppliedMatrices(s)[k].K, SuppliedMatrices(s)[k].Cq,
                                    n_modes, solver_ok, Faulty(s))

=============================================================================
